---- MODULE Spec2Model ----
(***************************************************************************)
(* crammer: a terminal drill trainer.  The model follows the program from  *)
(* the session file to the exit code: parser.c reads and parses the file   *)
(* into the flat Session, main.c drives log, terminal and runner, and the  *)
(* runner (runner.c, duplicated in main.c) rotates groups and items        *)
(* against the monotonic clock and the key input.                          *)
(***************************************************************************)
EXTENDS Integers, Sequences, FiniteSets, TLC

(***************************************************************************)
(* Program constants (include/config.h).  The capacity constants are       *)
(* scaled down so that a model run can reach and exceed each of them;      *)
(* MAX_GROUP_SECONDS keeps its value.                                      *)
(***************************************************************************)
MAX_GROUPS == 3
MAX_ITEMS_TOTAL == 4
MAX_ITEMS_PER_GROUP == 3
MAX_LINE_LEN == 10
MAX_FILE_BYTES == 29
MAX_PROMPTS_PER_RUN == 4
MAX_WAIT_LOOPS == 2
RNG_RETRY_LIMIT == 3
MAX_GROUP_SECONDS == 86400
MAX_GROUP_MILLISECONDS == MAX_GROUP_SECONDS * 1000

(***************************************************************************)
(* Bounds of the model.                                                    *)
(***************************************************************************)
\* the longest session text of SpecParse, in lines
MaxLines == 4
\* the step of the monotonic clock, in milliseconds
TickMs == 1000
\* the width of a generator word in bits (64 in the program)
WordBits == 4
\* the most calls of one handler that can fail on their own (log, clock, draw)
IoCalls == 6
\* the longest generated seconds field of SpecHeader, in bytes
MaxSecLen == 3
\* the lines of a text of SpecCap
MaxCapLines == 7
\* the groups of a session handed to runner_run in SpecRunner
MaxRunGroups == 2

(***************************************************************************)
(* Bytes.  A byte is a one-character string; NUL is the byte 0.            *)
(***************************************************************************)
NUL == "NUL"
LF == "\n"
CR == "\r"

\* isspace() in the C locale
IsSpace(c) == c \in {" ", "\t", LF, CR, "VT", "FF"}

\* digit value of a byte, -1 for a byte that is no decimal digit
DigitVal(c) ==
  CASE c = "0" -> 0 [] c = "1" -> 1 [] c = "2" -> 2 [] c = "3" -> 3
    [] c = "4" -> 4 [] c = "5" -> 5 [] c = "6" -> 6 [] c = "7" -> 7
    [] c = "8" -> 8 [] c = "9" -> 9 [] OTHER -> -1

VARIABLES
  file,        \* the bytes of the session file on disk
  session,     \* struct Session: buffer, buffer_len, groups, group_count, items, item_count
  state,       \* struct parse_state: line_no, has_group, current_group
  line_start,  \* parse_session_buffer's line_start
  err_buf,     \* the error message: [line, msg], line 0 when it carries no line number
  pc,          \* the program's position
  rt,          \* struct runtime
  group_order, \* g_group_order
  item_order,  \* g_item_order
  loop,        \* the locals of run_loop and run_wait_loop: step, wait, remaining_ms, key,
               \* and read, what select() and read() did in the last key read
  now,         \* CLOCK_MONOTONIC in milliseconds
  log_open,    \* the log file is open (g_log_fd >= 0)
  log,         \* the events written to the log, oldest first
  screen,      \* the index of the item the terminal shows, -1 when it shows no prompt
  term,        \* struct TermState and the mode of the tty: active, raw, cursor
  stderr,      \* the lines written to standard error
  rc,          \* the return code of the call that ended last
  exit_code,   \* the exit status of the process, -1 while it runs
  group_cycle, \* history: the groups selected since group_order was last shuffled
  item_cycle,  \* history: the items selected since item_order was last shuffled
  argv,        \* the arguments of main after the program name
  stdout,      \* the lines written to standard output
  rng_call,    \* a call of rng.c on its own: operation, arguments, locals, result
  keys         \* the bytes the terminal can deliver during the run

parse_vars == <<file, session, state, line_start, err_buf>>
side_vars == <<argv, stdout, rng_call, keys>>
run_vars == <<rt, group_order, item_order, loop, now, log_open, log, screen, term,
              stderr, rc, exit_code, group_cycle, item_cycle, side_vars>>
vars == <<parse_vars, pc, run_vars>>

ZeroGroup == [name_offset |-> 0, name_length |-> 0, seconds |-> 0,
              item_start |-> 0, item_count |-> 0]
ZeroItem == [offset |-> 0, length |-> 0]

\* the static, zero-filled g_session after session_init
session_init ==
  [buffer |-> [i \in 0..MAX_FILE_BYTES |-> NUL],
   buffer_len |-> 0,
   groups |-> [g \in 0..(MAX_GROUPS - 1) |-> ZeroGroup],
   group_count |-> 0,
   items |-> [k \in 0..(MAX_ITEMS_TOTAL - 1) |-> ZeroItem],
   item_count |-> 0]

NoError == [line |-> 0, msg |-> ""]
set_error(msg) == [line |-> 0, msg |-> msg]
set_error_line(line_no, msg) == [line |-> line_no, msg |-> msg]

(***************************************************************************)
(* parser.c: helpers on a line of the buffer.  A line is addressed by its  *)
(* offset in the buffer (the C code's char pointer) and its length.        *)
(***************************************************************************)
RECURSIVE trim_left_from(_, _, _, _)
trim_left_from(buf, line, line_len, i) ==
  IF i >= line_len THEN line_len
  ELSE IF ~IsSpace(buf[line + i]) THEN i
  ELSE trim_left_from(buf, line, line_len, i + 1)

trim_left_index(buf, line, line_len) ==
  IF line_len > MAX_LINE_LEN THEN line_len
  ELSE trim_left_from(buf, line, line_len, 0)

RECURSIVE trim_right_from(_, _, _, _)
trim_right_from(buf, line, start, end) ==
  IF end <= start \/ end = 0 THEN end
  ELSE IF ~IsSpace(buf[line + end - 1]) THEN end
  ELSE trim_right_from(buf, line, start, end - 1)

trim_right_index(buf, line, line_len, start) ==
  IF line_len > MAX_LINE_LEN THEN start
  ELSE trim_right_from(buf, line, start, line_len)

is_blank_or_comment(buf, line, line_len) ==
  IF line_len > MAX_LINE_LEN THEN TRUE
  ELSE LET start == trim_left_index(buf, line, line_len)
       IN  IF start >= line_len THEN TRUE ELSE buf[line + start] = "#"

\* index of the first '|' in line[1 .. line_len - 2], -1 when there is none
find_pipe_index(buf, line, line_len) ==
  LET hits == {i \in 1..(line_len - 2) : i < MAX_LINE_LEN /\ buf[line + i] = "|"}
  IN  IF hits = {} THEN -1
      ELSE CHOOSE i \in hits : \A k \in hits : i <= k

(***************************************************************************)
(* strtoul(sec, &endptr, 10) on the NUL-terminated string at offset sec:   *)
(* leading white space, an optional sign, then decimal digits.  The result *)
(* is [value, huge, endp]: endp is endptr - sec, huge says that the value  *)
(* is above every seconds bound (a negated non-zero number wraps to the    *)
(* top of unsigned long).  A string without digits gives value 0 and       *)
(* endp 0.  Lines are at most MAX_LINE_LEN digits, so ERANGE cannot occur. *)
(***************************************************************************)
RECURSIVE SkipSpace(_, _)
SkipSpace(buf, p) == IF IsSpace(buf[p]) THEN SkipSpace(buf, p + 1) ELSE p

RECURSIVE DigitsEnd(_, _)
DigitsEnd(buf, p) == IF DigitVal(buf[p]) >= 0 THEN DigitsEnd(buf, p + 1) ELSE p

RECURSIVE DecimalValue(_, _, _, _)
DecimalValue(buf, p, e, acc) ==
  IF p >= e THEN acc
  ELSE DecimalValue(buf, p + 1, e, acc * 10 + DigitVal(buf[p]))

strtoul(buf, sec) ==
  LET p0 == SkipSpace(buf, sec)
      signed == buf[p0] \in {"+", "-"}
      p1 == IF signed THEN p0 + 1 ELSE p0
      e == DigitsEnd(buf, p1)
      v == DecimalValue(buf, p1, e, 0)
  IN  IF e = p1 THEN [value |-> 0, huge |-> FALSE, endp |-> 0]
      ELSE [value |-> v, huge |-> (buf[p0] = "-" /\ v > 0), endp |-> e - sec]

\* parse_seconds_value as it would be without the upper bound
parse_seconds_value_unbounded(buf, sec) ==
  LET r == strtoul(buf, sec)
  IN  IF buf[sec + r.endp] # NUL \/ r.huge \/ r.value < 1 THEN 0 ELSE r.value

\* parse_seconds_value: the seconds, or 0 for "invalid seconds value"
parse_seconds_value(buf, sec) ==
  LET r == strtoul(buf, sec)
  IN  IF buf[sec + r.endp] # NUL \/ r.huge \/ r.value < 1
         \/ r.value > MAX_GROUP_SECONDS
      THEN 0 ELSE r.value

\* strlen of the NUL-terminated string at offset p
RECURSIVE strlen(_, _)
strlen(buf, p) == IF buf[p] = NUL THEN 0 ELSE 1 + strlen(buf, p + 1)

(***************************************************************************)
(* parse_header_line, parse_item_line and handle_line return               *)
(* [rc, err, session]: the return code, the message left in err_buf and    *)
(* the session with everything the call wrote to it, the NUL bytes that    *)
(* the header parser puts into the buffer included.                        *)
(***************************************************************************)
Ok(s) == [rc |-> 0, err |-> NoError, session |-> s]
Fail(s, line_no, msg) == [rc |-> -1, err |-> set_error_line(line_no, msg), session |-> s]

parse_header_line(s, line, line_len, line_no) ==
  IF line_len > MAX_LINE_LEN THEN [rc |-> -1, err |-> NoError, session |-> s]
  ELSE IF line_len < 3 \/ s.buffer[line] # "[" \/ s.buffer[line + line_len - 1] # "]"
  THEN Fail(s, line_no, "malformed header")
  ELSE
  LET pipe_index == find_pipe_index(s.buffer, line, line_len) IN
  IF pipe_index = -1 THEN Fail(s, line_no, "malformed header")
  ELSE
  LET b1 == [s.buffer EXCEPT ![line + line_len - 1] = NUL, ![line + pipe_index] = NUL]
      name == line + 1
      name_len == pipe_index - 1
      name_start == trim_left_index(b1, name, name_len)
      name_end == trim_right_index(b1, name, name_len, name_start)
  IN
  IF name_start >= name_end
  THEN Fail([s EXCEPT !.buffer = b1], line_no, "malformed header")
  ELSE
  LET b2 == [b1 EXCEPT ![name + name_end] = NUL]
      sec == line + pipe_index + 1
      sec_len == (line_len - 1) - (pipe_index + 1)
      sec_start == trim_left_index(b2, sec, sec_len)
      sec_end == trim_right_index(b2, sec, sec_len, sec_start)
  IN
  IF sec_start >= sec_end
  THEN Fail([s EXCEPT !.buffer = b2], line_no, "malformed header")
  ELSE
  LET b3 == [b2 EXCEPT ![sec + sec_end] = NUL]
      s3 == [s EXCEPT !.buffer = b3]
      seconds == parse_seconds_value(b3, sec + sec_start)
      group_index == s.group_count
      name_length == strlen(b3, name + name_start)
  IN
  IF seconds = 0 THEN Fail(s3, line_no, "invalid seconds value")
  ELSE IF group_index >= MAX_GROUPS THEN Fail(s3, line_no, "too many groups")
  ELSE IF name_length > MAX_LINE_LEN THEN Fail(s3, line_no, "group name too long")
  ELSE Ok([s3 EXCEPT
            !.groups[group_index] =
               [name_offset |-> name + name_start, name_length |-> name_length,
                seconds |-> seconds, item_start |-> s.item_count, item_count |-> 0],
            !.group_count = @ + 1])

\* parse_item_line as it would be if it forgot to count the item in the session
parse_item_line_uncounted(s, st, line_start_, line_len) ==
  IF ~st.has_group THEN Fail(s, st.line_no, "item before any group header")
  ELSE IF s.item_count >= MAX_ITEMS_TOTAL THEN Fail(s, st.line_no, "too many items")
  ELSE IF ~(st.current_group < s.group_count) THEN [rc |-> -1, err |-> NoError, session |-> s]
  ELSE IF s.groups[st.current_group].item_count >= MAX_ITEMS_PER_GROUP
  THEN Fail(s, st.line_no, "too many items in group")
  ELSE Ok([s EXCEPT
            !.items[s.item_count] = [offset |-> line_start_, length |-> line_len],
            !.groups[st.current_group].item_count = @ + 1])

\* parse_item_line as it would be without the cap on the session's items
parse_item_line_uncapped(s, st, line_start_, line_len) ==
  IF ~st.has_group THEN Fail(s, st.line_no, "item before any group header")
  ELSE IF ~(st.current_group < s.group_count) THEN [rc |-> -1, err |-> NoError, session |-> s]
  ELSE IF s.groups[st.current_group].item_count >= MAX_ITEMS_PER_GROUP
  THEN Fail(s, st.line_no, "too many items in group")
  ELSE Ok([s EXCEPT
            !.items[s.item_count] = [offset |-> line_start_, length |-> line_len],
            !.item_count = @ + 1,
            !.groups[st.current_group].item_count = @ + 1])

\* parse_item_line as it would be if items went to the first group of the file
parse_item_line_first_group(s, st, line_start_, line_len) ==
  IF ~st.has_group THEN Fail(s, st.line_no, "item before any group header")
  ELSE IF s.item_count >= MAX_ITEMS_TOTAL THEN Fail(s, st.line_no, "too many items")
  ELSE IF ~(st.current_group < s.group_count) THEN [rc |-> -1, err |-> NoError, session |-> s]
  ELSE IF s.groups[0].item_count >= MAX_ITEMS_PER_GROUP
  THEN Fail(s, st.line_no, "too many items in group")
  ELSE Ok([s EXCEPT
            !.items[s.item_count] = [offset |-> line_start_, length |-> line_len],
            !.item_count = @ + 1,
            !.groups[0].item_count = @ + 1])

parse_item_line(s, st, line_start_, line_len) ==
  IF ~st.has_group THEN Fail(s, st.line_no, "item before any group header")
  ELSE IF s.item_count >= MAX_ITEMS_TOTAL THEN Fail(s, st.line_no, "too many items")
  ELSE IF ~(st.current_group < s.group_count) THEN [rc |-> -1, err |-> NoError, session |-> s]
  ELSE IF s.groups[st.current_group].item_count >= MAX_ITEMS_PER_GROUP
  THEN Fail(s, st.line_no, "too many items in group")
  ELSE Ok([s EXCEPT
            !.items[s.item_count] = [offset |-> line_start_, length |-> line_len],
            !.item_count = @ + 1,
            !.groups[st.current_group].item_count = @ + 1])

\* handle_line also returns the parse_state it leaves: [rc, err, session, state]
WithState(r, st) == [rc |-> r.rc, err |-> r.err, session |-> r.session, state |-> st]

\* handle_line as it would be if an empty group were only found at the end
handle_line_deferring(s, st, line, line_len, line_start_) ==
  IF is_blank_or_comment(s.buffer, line, line_len) THEN WithState(Ok(s), st)
  ELSE IF s.buffer[line] = "["
  THEN IF st.has_group /\ ~(st.current_group < s.group_count)
       THEN WithState([rc |-> -1, err |-> NoError, session |-> s], st)
       ELSE LET r == parse_header_line(s, line, line_len, st.line_no)
            IN  IF r.rc # 0 THEN WithState(r, st)
                ELSE WithState(r, [st EXCEPT !.current_group = r.session.group_count - 1,
                                             !.has_group = TRUE])
  ELSE WithState(parse_item_line(s, st, line_start_, line_len), st)

handle_line(s, st, line, line_len, line_start_) ==
  IF is_blank_or_comment(s.buffer, line, line_len) THEN WithState(Ok(s), st)
  ELSE IF s.buffer[line] = "["
  THEN IF st.has_group /\ ~(st.current_group < s.group_count)
       THEN WithState([rc |-> -1, err |-> NoError, session |-> s], st)
       ELSE IF st.has_group /\ s.groups[st.current_group].item_count = 0
       THEN WithState(Fail(s, st.line_no, "previous group has no items"), st)
       ELSE LET r == parse_header_line(s, line, line_len, st.line_no)
            IN  IF r.rc # 0 THEN WithState(r, st)
                ELSE WithState(r, [st EXCEPT !.current_group = r.session.group_count - 1,
                                             !.has_group = TRUE])
  ELSE WithState(parse_item_line(s, st, line_start_, line_len), st)

(***************************************************************************)
(* The session texts of SpecParse: up to MaxLines lines, each one of the   *)
(* line shapes below, joined by '\n', with or without a final '\n', and   *)
(* one text of exactly MAX_FILE_BYTES bytes.                               *)
(***************************************************************************)
LineKinds ==
  { <<"[", "a", "|", "1", "]">>,        \* header
    <<"[", "a", "|", " ", "2", "]">>,   \* header, seconds to be trimmed
    <<"a">>,                            \* prompt
    <<"a", " ", "b", " ", "c">>,        \* prompt with inner white space
    <<" ", "a", CR>>,                   \* prompt with leading space, CR LF ending
    <<>>,                               \* blank
    <<" ", "#">>,                       \* comment after white space
    <<"[", "a", "]">>,                  \* header without '|'
    <<"[", "a", "|", "0", "]">>,        \* header with seconds out of range
    <<"[", "a", "a", "a", "a", "a", "a", "a", "|", "1", "]">> }   \* header, too long

RECURSIVE JoinLines(_)
JoinLines(ls) ==
  IF ls = <<>> THEN <<>>
  ELSE IF Len(ls) = 1 THEN ls[1]
  ELSE ls[1] \o <<LF>> \o JoinLines(Tail(ls))

\* a text of exactly MAX_FILE_BYTES bytes that the format and the capacities allow
BoundaryText ==
  JoinLines(<< <<"[", "a", "|", " ", "2", "]">>, <<"a">>,
               <<"[", "a", "|", " ", "2", "]">>, <<"a">>,
               <<"[", "a", "|", "1", "]">>, <<"a", " ", "b", " ", "c">> >>)

Texts ==
  { JoinLines(ls) \o tail :
      ls \in UNION {[1..n -> LineKinds] : n \in 0..MaxLines},
      tail \in {<<>>, <<LF>>} } \cup {BoundaryText}

Min(a, b) == IF a <= b THEN a ELSE b

(***************************************************************************)
(* parse_session_file up to the end of read_file_into_session: the session *)
(* is initialised, the file is opened, at most MAX_FILE_BYTES bytes are    *)
(* read into the buffer and one more byte is asked for.  Opening, reading  *)
(* and closing can each fail.                                              *)
(***************************************************************************)
\* read_file_into_session as it would be without the read of one more byte:
\* a longer file is cut at MAX_FILE_BYTES
read_file_truncating(s, f, open_ok, read_ok, close_ok) ==
  LET nread == Min(Len(f), MAX_FILE_BYTES)
      got == IF read_ok THEN nread ELSE 0
      filled == [s EXCEPT !.buffer = [i \in 0..MAX_FILE_BYTES |->
                                        IF i < got THEN f[i + 1] ELSE s.buffer[i]]]
  IN  IF ~open_ok THEN [rc |-> -1, err |-> set_error("failed to open file"), session |-> s]
      ELSE IF ~read_ok
      THEN [rc |-> -1, session |-> filled,
            err |-> set_error(IF close_ok THEN "failed to read file" ELSE "failed to close file")]
      ELSE IF ~close_ok
      THEN [rc |-> -1, err |-> set_error("failed to close file"), session |-> filled]
      ELSE [rc |-> 0, err |-> NoError,
            session |-> [filled EXCEPT !.buffer_len = nread, !.buffer[nread] = NUL]]

read_file_into_session(s, f, open_ok, read_ok, close_ok) ==
  LET nread == Min(Len(f), MAX_FILE_BYTES)
      got == IF read_ok THEN nread ELSE 0
      filled == [s EXCEPT !.buffer = [i \in 0..MAX_FILE_BYTES |->
                                        IF i < got THEN f[i + 1] ELSE s.buffer[i]]]
  IN  IF ~open_ok THEN [rc |-> -1, err |-> set_error("failed to open file"), session |-> s]
      ELSE IF ~read_ok
      THEN [rc |-> -1, session |-> filled,
            err |-> set_error(IF close_ok THEN "failed to read file" ELSE "failed to close file")]
      ELSE IF Len(f) > nread
      THEN [rc |-> -1, session |-> filled,
            err |-> set_error(IF close_ok THEN "file exceeds MAX_FILE_BYTES"
                              ELSE "failed to close file")]
      ELSE IF ~close_ok
      THEN [rc |-> -1, err |-> set_error("failed to close file"), session |-> filled]
      ELSE [rc |-> 0, err |-> NoError,
            session |-> [filled EXCEPT !.buffer_len = nread, !.buffer[nread] = NUL]]

ReadFile ==
  /\ pc = "read"
  /\ \E open_ok \in BOOLEAN, read_ok \in BOOLEAN, close_ok \in BOOLEAN :
       LET r == read_file_into_session(session_init, file, open_ok, read_ok, close_ok)
       IN  /\ session' = r.session
           /\ err_buf' = r.err
           /\ pc' = IF r.rc = 0 THEN "parse" ELSE "parse_failed"
  /\ state' = [line_no |-> 1, has_group |-> FALSE, current_group |-> 0]
  /\ line_start' = 0
  /\ UNCHANGED <<file, run_vars>>

(***************************************************************************)
(* parse_session_buffer: one turn of the scan loop that meets the end of a *)
(* line, at the first i >= line_start with i = buf_len or buf[i] = '\n'.   *)
(***************************************************************************)
RECURSIVE LineEnd(_, _, _)
LineEnd(buf, buf_len, i) ==
  IF i = buf_len \/ buf[i] = LF THEN i ELSE LineEnd(buf, buf_len, i + 1)

\* line_length as it would be if the trailing '\r' stayed in the line
line_length_keeping_cr(buf, line_start_, i) == i - line_start_

\* the line length parse_session_buffer hands on: one trailing '\r' is cut
line_length(buf, line_start_, i) ==
  LET line_len == i - line_start_
  IN  IF line_len > 0 /\ buf[line_start_ + line_len - 1] = CR
      THEN line_len - 1 ELSE line_len

ParseLine ==
  /\ pc = "parse"
  /\ LET buf == session.buffer
         i == LineEnd(buf, session.buffer_len, line_start)
         line_len == line_length(buf, line_start, i)
     IN  IF line_len > MAX_LINE_LEN
         THEN /\ err_buf' = set_error_line(state.line_no, "line too long")
              /\ pc' = "parse_failed"
              /\ UNCHANGED <<session, state, line_start>>
         ELSE LET s1 == [session EXCEPT !.buffer[line_start + line_len] = NUL]
                  r == handle_line(s1, state, line_start, line_len, line_start)
              IN  /\ session' = r.session
                  /\ IF r.rc # 0
                     THEN /\ err_buf' = r.err
                          /\ pc' = "parse_failed"
                          /\ UNCHANGED <<state, line_start>>
                     ELSE /\ state' = [r.state EXCEPT !.line_no = @ + 1]
                          /\ line_start' = i + 1
                          /\ pc' = IF i = session.buffer_len THEN "parse_end" ELSE "parse"
                          /\ UNCHANGED err_buf
  /\ UNCHANGED <<file, run_vars>>

\* the end of parse_session_buffer as it would be without the look at the
\* last group
ParseEndUnchecked ==
  /\ pc = "parse_end"
  /\ IF session.group_count = 0
     THEN /\ err_buf' = set_error("no groups found")
          /\ pc' = "parse_failed"
     ELSE /\ pc' = "parsed"
          /\ UNCHANGED err_buf
  /\ UNCHANGED <<file, session, state, line_start, run_vars>>

\* parse_session_buffer after the loop: the end-of-input checks
ParseEnd ==
  /\ pc = "parse_end"
  /\ IF session.group_count = 0
     THEN /\ err_buf' = set_error("no groups found")
          /\ pc' = "parse_failed"
     ELSE IF state.has_group /\ session.groups[state.current_group].item_count = 0
     THEN /\ err_buf' = set_error_line(state.line_no, "last group has no items")
          /\ pc' = "parse_failed"
     ELSE /\ pc' = "parsed"
          /\ UNCHANGED err_buf
  /\ UNCHANGED <<file, session, state, line_start, run_vars>>

\* no call of rng.c on its own
NoCall ==
  [op |-> "none", stage |-> "done", upper |-> 0, i |-> 0, draws |-> 0, word |-> 0,
   result |-> 0, input |-> <<>>, values |-> <<>>, count |-> 0, js |-> <<>>, rc |-> 0]

\* the memory and the streams of the process when main is entered
InitMemory ==
  /\ stdout = <<>>
  /\ session = session_init
  /\ state = [line_no |-> 1, has_group |-> FALSE, current_group |-> 0]
  /\ line_start = 0
  /\ err_buf = NoError
  /\ rt = [order_pos |-> 0, group_index |-> 0, item_pos |-> 0, item_index |-> 0,
           group_end |-> 0, pending_switch |-> FALSE]
  /\ group_order = [i \in 0..(MAX_GROUPS - 1) |-> 0]
  /\ item_order = [i \in 0..(MAX_ITEMS_PER_GROUP - 1) |-> 0]
  /\ loop = [step |-> 0, wait |-> 0, remaining_ms |-> 0, key |-> 0, read |-> "none"]
  /\ now = 0
  /\ log_open = FALSE
  /\ log = <<>>
  /\ screen = -1
  /\ term = [active |-> 0, raw |-> FALSE, cursor |-> TRUE]
  /\ stderr = <<>>
  /\ rc = 0
  /\ exit_code = -1
  /\ group_cycle = <<>>
  /\ item_cycle = <<>>

\* the process before run_program has done anything
InitProcess ==
  /\ argv = <<"session">>
  /\ rng_call = NoCall
  /\ keys = {}
  /\ pc = "read"
  /\ InitMemory

InitParse ==
  /\ file \in Texts
  /\ InitProcess

NextParse == ReadFile \/ ParseLine \/ ParseEnd

SpecParse == InitParse /\ [][NextParse]_vars

(***************************************************************************)
(* SpecCap: the parser on files of up to MaxCapLines lines, each a header  *)
(* or a prompt of one byte, which reach and exceed the three capacities.   *)
(***************************************************************************)
CapTexts ==
  { JoinLines(ls) :
      ls \in UNION {[1..n -> {<<"[", "a", "|", "1", "]">>, <<"a">>}] : n \in 1..MaxCapLines} }

InitCap ==
  /\ file \in CapTexts
  /\ InitProcess

SpecCap == InitCap /\ [][NextParse]_vars

(***************************************************************************)
(* The session file format as section 6 of the specification words it,     *)
(* read off the text of the file alone.  These definitions state what the  *)
(* claims about the parser compare its result with.                        *)
(***************************************************************************)
RECURSIVE SplitLines(_, _)
SplitLines(text, cur) ==
  IF text = <<>> THEN <<cur>>
  ELSE IF Head(text) = LF THEN <<cur>> \o SplitLines(Tail(text), <<>>)
  ELSE SplitLines(Tail(text), Append(cur, Head(text)))

StripCR(l) ==
  IF Len(l) > 0 /\ l[Len(l)] = CR THEN SubSeq(l, 1, Len(l) - 1) ELSE l

\* the lines of a text, without their '\n' and one trailing '\r'
TextLines(text) ==
  LET raw == SplitLines(text, <<>>) IN [k \in 1..Len(raw) |-> StripCR(raw[k])]

TextBlank(l) == \A k \in 1..Len(l) : IsSpace(l[k])
TextComment(l) ==
  \E k \in 1..Len(l) : l[k] = "#" /\ \A j \in 1..(k - 1) : IsSpace(l[j])
TextIgnored(l) == TextBlank(l) \/ TextComment(l)
TextHeader(l) == ~TextIgnored(l) /\ l[1] = "["
TextPrompt(l) == ~TextIgnored(l) /\ l[1] # "["

\* the prompt lines of a text, in file order
PromptLines(text) == SelectSeq(TextLines(text), TextPrompt)

Trimmed(l) ==
  IF TextBlank(l) THEN <<>>
  ELSE LET a == CHOOSE k \in 1..Len(l) : ~IsSpace(l[k]) /\ \A j \in 1..(k - 1) : IsSpace(l[j])
           b == CHOOSE k \in 1..Len(l) : ~IsSpace(l[k]) /\ \A j \in (k + 1)..Len(l) : IsSpace(l[j])
       IN  SubSeq(l, a, b)

RECURSIVE NumberOf(_)
NumberOf(ds) ==
  IF ds = <<>> THEN 0 ELSE 10 * NumberOf(SubSeq(ds, 1, Len(ds) - 1)) + DigitVal(ds[Len(ds)])

\* [name|seconds]: a non-empty trimmed name, seconds an unsigned integer in [1, 86400]
TextValidHeader(l) ==
  /\ Len(l) >= 3 /\ l[1] = "[" /\ l[Len(l)] = "]"
  /\ \E p \in 2..(Len(l) - 1) :
       /\ l[p] = "|" /\ \A j \in 2..(p - 1) : l[j] # "|"
       /\ Trimmed(SubSeq(l, 2, p - 1)) # <<>>
       /\ LET sec == Trimmed(SubSeq(l, p + 1, Len(l) - 1))
          IN  /\ sec # <<>>
              /\ \A k \in 1..Len(sec) : DigitVal(sec[k]) >= 0
              /\ NumberOf(sec) >= 1 /\ NumberOf(sec) <= MAX_GROUP_SECONDS

\* a text that the format and the capacities allow
WellFormed(text) ==
  LET ls == TextLines(text)
      sig == SelectSeq(ls, LAMBDA l : ~TextIgnored(l))
      IsH(k) == TextHeader(sig[k])
  IN  /\ \A k \in 1..Len(ls) : Len(ls[k]) <= MAX_LINE_LEN
      /\ Len(sig) >= 1 /\ IsH(1)
      /\ \A k \in 1..Len(sig) :
           IsH(k) => TextValidHeader(sig[k]) /\ k < Len(sig) /\ ~IsH(k + 1)
      /\ Cardinality({k \in 1..Len(sig) : IsH(k)}) <= MAX_GROUPS
      /\ Cardinality({k \in 1..Len(sig) : ~IsH(k)}) <= MAX_ITEMS_TOTAL
      /\ \A k \in 1..Len(sig) :
           (\A j \in k..(k + MAX_ITEMS_PER_GROUP) : j <= Len(sig) /\ ~IsH(j)) => FALSE

\* the bytes an Item names, as they stand in the buffer
ItemText(k) ==
  [j \in 1..session.items[k].length |-> session.buffer[session.items[k].offset + j - 1]]

\* the items of the session in order, each as its bytes in the buffer
ParsedItems == [k \in 1..session.item_count |-> ItemText(k - 1)]

IOErrors == {"failed to open file", "failed to read file", "failed to close file"}

(***************************************************************************)
(* Claims about the parser, checked under SpecParse.                       *)
(***************************************************************************)

\* C8: in every session that parsed successfully every group has at least one
\* item, group 0 starts at item 0, each later group starts where the group
\* before it ends, and the last group ends at the session's item_count.
GroupsPartitionItems ==
  pc = "parsed" =>
    LET n == session.group_count IN
    /\ n >= 1
    /\ \A g \in 0..(n - 1) : session.groups[g].item_count >= 1
    /\ session.groups[0].item_start = 0
    /\ \A g \in 1..(n - 1) :
         session.groups[g].item_start =
           session.groups[g - 1].item_start + session.groups[g - 1].item_count
    /\ session.groups[n - 1].item_start + session.groups[n - 1].item_count
         = session.item_count

\* a session of two groups or more has parsed
PartitionWitness ==
  /\ pc = "parsed"
  /\ session.group_count >= 2
  /\ session.item_count >= 2

\* C9: the items of a successfully parsed session, sliced out of the buffer
\* as parsing left it, are the prompt lines of the file in file order, each
\* without its '\n' and one trailing '\r', and no item is empty.
ParserRoundTrip ==
  pc = "parsed" =>
    /\ ParsedItems = PromptLines(file)
    /\ \A k \in 0..(session.item_count - 1) : session.items[k].length > 0

\* a session has parsed whose text has a CR LF prompt, a prompt with inner
\* white space, a comment and a last prompt without '\n'
RoundTripWitness ==
  /\ pc = "parsed"
  /\ session.item_count >= 2
  /\ \E k \in 1..Len(file) : file[k] = CR
  /\ \E k \in 1..Len(file) : file[k] = "#"
  /\ file[Len(file)] # LF
  /\ TextPrompt(TextLines(file)[Len(TextLines(file))])

SecBytes == {"0", "1", "9", " ", "+", "-", "x"}

SecFields ==
  UNION {[1..n -> SecBytes] : n \in 0..MaxSecLen}
    \cup { <<"8", "6", "4", "0", "0">>, <<"8", "6", "4", "0", "1">>,
           <<"8", "6", "3", "9", "9">>, <<"+", "8", "6", "4", "0", "0">>,
           <<"0", "8", "6", "4", "0", "0">>, <<"8", "6", "4", "0", "0", "0">> }

HeaderTexts == { <<"[", "a", "|">> \o f \o <<"]", LF, "a">> : f \in SecFields }

InitHeader ==
  /\ file \in HeaderTexts
  /\ InitProcess

SpecHeader == InitHeader /\ [][NextParse]_vars

\* the seconds field of the header of a file of HeaderTexts
SecondsField == SubSeq(file, 4, Len(file) - 3)

\* the digits of a numeral: an unsigned decimal integer may carry a '+'
NumeralDigits(t) == IF t # <<>> /\ t[1] = "+" THEN Tail(t) ELSE t

\* the trimmed text is an unsigned decimal integer in [1, MAX_GROUP_SECONDS]
ValidSeconds(f) ==
  LET d == NumeralDigits(Trimmed(f))
  IN  /\ d # <<>>
      /\ \A k \in 1..Len(d) : DigitVal(d[k]) >= 0
      /\ NumberOf(d) >= 1 /\ NumberOf(d) <= MAX_GROUP_SECONDS

\* the seconds of every group of the session are in [1, MAX_GROUP_SECONDS]
GroupSecondsInRange ==
  \A g \in 0..(session.group_count - 1) :
    session.groups[g].seconds >= 1 /\ session.groups[g].seconds <= MAX_GROUP_SECONDS

\* a header is accepted exactly when its seconds field is valid, and then
\* the group carries the value of the field
SecondsDecideHeader ==
  /\ session.group_count >= 1 =>
       /\ ValidSeconds(SecondsField)
       /\ session.groups[0].seconds = NumberOf(NumeralDigits(Trimmed(SecondsField)))
  /\ ValidSeconds(SecondsField) => (pc = "parse_failed" => err_buf.msg \in IOErrors)
  /\ ~ValidSeconds(SecondsField) => pc \in {"read", "parse", "parse_failed"}
  /\ GroupSecondsInRange

CurrentLine == TextLines(file)[state.line_no]

\* the lines of the file that are neither blank nor comments
SignificantLines == SelectSeq(TextLines(file), LAMBDA l : ~TextIgnored(l))

\* C11: when handle_line meets a header line (a line of at most MAX_LINE_LEN
\* bytes; longer lines never reach it) while the open group has no item,
\* parsing fails there with "previous group has no items" and the number of
\* that line, whether the header is well-formed or not, and no group is added.
EagerEmptyGroupStep ==
  (/\ pc = "parse"
   /\ state.has_group
   /\ session.groups[state.current_group].item_count = 0
   /\ TextHeader(CurrentLine)
   /\ Len(CurrentLine) <= MAX_LINE_LEN) =>
    /\ pc' = "parse_failed"
    /\ err_buf' = [line |-> state.line_no, msg |-> "previous group has no items"]
    /\ session'.group_count = session.group_count
    /\ session'.groups = session.groups
    /\ session'.item_count = session.item_count
EagerEmptyGroupCheck == [][EagerEmptyGroupStep]_vars

\* parsing has failed at a malformed header that follows an empty group
EagerEmptyGroupWitness ==
  /\ pc = "parse_failed"
  /\ err_buf.msg = "previous group has no items"
  /\ err_buf.line = state.line_no
  /\ TextHeader(CurrentLine) /\ ~TextValidHeader(CurrentLine)
  /\ session.group_count = 1

\* C12: at the end of input parsing fails with "no groups found" when the
\* file has no header (an empty file, or blank and comment lines only),
\* fails with "last group has no items" when no prompt follows the last
\* header, and succeeds otherwise.
EndOfInputStep ==
  pc = "parse_end" =>
    /\ session' = session
    /\ IF Len(SignificantLines) = 0
       THEN pc' = "parse_failed" /\ err_buf' = [line |-> 0, msg |-> "no groups found"]
       ELSE IF TextHeader(SignificantLines[Len(SignificantLines)])
       THEN /\ pc' = "parse_failed"
            /\ err_buf'.msg = "last group has no items"
            /\ err_buf'.line > 0
       ELSE pc' = "parsed" /\ err_buf' = err_buf
EndOfInputChecks == [][EndOfInputStep]_vars

\* a file whose last header has no prompt has failed at the end of input
EndOfInputWitness ==
  /\ pc = "parse_failed"
  /\ err_buf.msg = "last group has no items"
  /\ session.group_count >= 2
  /\ line_start > session.buffer_len

(***************************************************************************)
(* rng.c.  The generator state is not modelled: every word it returns is   *)
(* a free choice, and rng_range is the set of values its rejection loop    *)
(* can return for such words.                                              *)
(***************************************************************************)
Words == 0..(2^WordBits - 1)

\* rng_range's threshold as it would be if no word were rejected
rng_threshold_none(upper) ==
  0

\* (u64)(-upper) % upper on words of WordBits bits
rng_threshold(upper) ==
  ((2^WordBits - upper) % (2^WordBits)) % upper

rng_range_values(upper) ==
  IF upper <= 0 THEN {0}
  ELSE LET threshold == rng_threshold(upper)
       IN  {r % upper : r \in {w \in Words : w >= threshold}}   \* an accepted draw
             \cup {r % upper : r \in Words}                     \* the draw after the last retry

\* the results of the rng_range(i + 1) calls of one shuffle of count values
Draws(count) ==
  {js \in [1..(count - 1) -> 0..(count - 1)] :
     \A i \in 1..(count - 1) : js[i] \in rng_range_values(i + 1)}

\* the loop of rng_shuffle_groups and rng_shuffle_items from index i on
RECURSIVE shuffle_from(_, _, _, _)
\* the shuffle loop as it would be if the swap lost values[i]
shuffle_from_overwriting(values, count, i, js) ==
  IF i >= count THEN values
  ELSE shuffle_from([values EXCEPT ![i] = values[js[i]]], count, i + 1, js)

\* the shuffle loop as it would be if j were drawn below i only
shuffle_from_below(values, count, i, js) ==
  IF i >= count THEN values
  ELSE LET j == js[i] % i
           tmp == values[i]
       IN  shuffle_from([values EXCEPT ![i] = values[j], ![j] = tmp], count, i + 1, js)

shuffle_from(values, count, i, js) ==
  IF i >= count THEN values
  ELSE LET j == js[i]
           tmp == values[i]
       IN  shuffle_from([values EXCEPT ![i] = values[j], ![j] = tmp], count, i + 1, js)

\* rng_shuffle_groups as it would be without the check of count
rng_shuffle_groups_unvalidated(values, count, js) ==
  IF count < 2 THEN [rc |-> 0, values |-> values]
  ELSE [rc |-> 0, values |-> shuffle_from(values, count, 1, js)]

rng_shuffle_groups(values, count, js) ==
  IF count > MAX_GROUPS THEN [rc |-> -1, values |-> values]
  ELSE IF count < 2 THEN [rc |-> 0, values |-> values]
  ELSE [rc |-> 0, values |-> shuffle_from(values, count, 1, js)]

rng_shuffle_items(values, count, js) ==
  IF count > MAX_ITEMS_PER_GROUP THEN [rc |-> -1, values |-> values]
  ELSE IF count < 2 THEN [rc |-> 0, values |-> values]
  ELSE [rc |-> 0, values |-> shuffle_from(values, count, 1, js)]

(***************************************************************************)
(* rng.c on its own: one call of rng_range, rng_shuffle_groups or          *)
(* rng_shuffle_items with arguments drawn from bounded sets.  The words of *)
(* rng_next_u64 are free choices.  The arrays have one element beyond the  *)
(* capacity the shuffles accept.                                           *)
(***************************************************************************)
RangeCall(upper) ==
  [NoCall EXCEPT !.op = "range", !.stage = "loop", !.upper = upper]

ShuffleCall(op, values, count) ==
  [NoCall EXCEPT !.op = op, !.stage = "call", !.input = values, !.values = values,
                 !.count = count]

RngCalls ==
  {RangeCall(upper) : upper \in Words}
    \cup {ShuffleCall("shuffle_groups", values, count) :
             values \in [0..MAX_GROUPS -> 0..MAX_GROUPS], count \in 0..(MAX_GROUPS + 1)}
    \cup {ShuffleCall("shuffle_items", values, count) :
             values \in [0..MAX_ITEMS_PER_GROUP -> 0..MAX_ITEMS_PER_GROUP],
             count \in 0..(MAX_ITEMS_PER_GROUP + 1)}

\* one pass of rng_range's loop as it would be with one retry more
rng_range_step_retrying(c, r) ==
  IF c.i <= RNG_RETRY_LIMIT /\ r < rng_threshold(c.upper)
  THEN [c EXCEPT !.draws = @ + 1, !.word = r, !.i = @ + 1]
  ELSE [c EXCEPT !.draws = @ + 1, !.word = r, !.result = r % c.upper, !.stage = "done"]

\* one draw of rng_range: a pass of the loop while i < RNG_RETRY_LIMIT, the
\* draw of the final return after it
rng_range_step(c, r) ==
  IF c.i < RNG_RETRY_LIMIT
  THEN IF r >= rng_threshold(c.upper)
       THEN [c EXCEPT !.draws = @ + 1, !.word = r, !.result = r % c.upper,
                      !.stage = "done"]
       ELSE [c EXCEPT !.draws = @ + 1, !.word = r, !.i = @ + 1]
  ELSE [c EXCEPT !.draws = @ + 1, !.word = r, !.result = r % c.upper, !.stage = "done"]

rng_unchanged ==
  UNCHANGED <<parse_vars, pc, argv, stdout, keys, rt, group_order, item_order, loop, now,
              log_open, log, screen, term, stderr, rc, exit_code, group_cycle, item_cycle>>

\* rng_range: upper = 0 returns 0 without a draw
RngRange ==
  /\ rng_call.op = "range"
  /\ rng_call.stage = "loop"
  /\ IF rng_call.upper <= 0
     THEN rng_call' = [rng_call EXCEPT !.result = 0, !.stage = "done"]
     ELSE \E r \in Words : rng_call' = rng_range_step(rng_call, r)
  /\ rng_unchanged

RngShuffleGroups ==
  /\ rng_call.op = "shuffle_groups"
  /\ rng_call.stage = "call"
  /\ \E js \in Draws(rng_call.count) :
       LET s == rng_shuffle_groups(rng_call.values, rng_call.count, js)
       IN  rng_call' = [rng_call EXCEPT !.values = s.values, !.rc = s.rc,
                                        !.js = IF s.values = rng_call.values /\ s.rc # 0
                                               THEN <<>> ELSE js,
                                        !.stage = "done"]
  /\ rng_unchanged

RngShuffleItems ==
  /\ rng_call.op = "shuffle_items"
  /\ rng_call.stage = "call"
  /\ \E js \in Draws(rng_call.count) :
       LET s == rng_shuffle_items(rng_call.values, rng_call.count, js)
       IN  rng_call' = [rng_call EXCEPT !.values = s.values, !.rc = s.rc,
                                        !.js = IF s.values = rng_call.values /\ s.rc # 0
                                               THEN <<>> ELSE js,
                                        !.stage = "done"]
  /\ rng_unchanged

InitRng ==
  /\ file = <<>>
  /\ argv = <<>>
  /\ keys = {}
  /\ pc = "rng"
  /\ rng_call \in RngCalls
  /\ InitMemory

NextRng ==
  \/ RngRange
  \/ RngShuffleGroups
  \/ RngShuffleItems

SpecRng == InitRng /\ [][NextRng]_vars

(***************************************************************************)
(* The runner's functions work on a record m of what they read and write:  *)
(* rc (the return code so far), rt, group_order, item_order, log, screen,  *)
(* remaining_ms, advanced and the two histories.  m.io says how many of    *)
(* the calls that can fail on their own (a log write, a clock read, a      *)
(* draw) succeed before one fails, -1 when none fails.                     *)
(***************************************************************************)
Machine(io) ==
  [rc |-> 0, rt |-> rt, group_order |-> group_order, item_order |-> item_order,
   log |-> log, screen |-> screen, remaining_ms |-> 0, advanced |-> FALSE, io |-> io,
   group_cycle |-> group_cycle, item_cycle |-> item_cycle]

IoChoices == -1..(IoCalls - 1)
Failed(m) == [m EXCEPT !.rc = -1]
IoDone(m) == [m EXCEPT !.io = IF @ > 0 THEN @ - 1 ELSE @]

Event(tag, a, b) == [tag |-> tag, a |-> a, b |-> b]

\* log.c: log_write appends one line to the open log
log_write(m, ev) ==
  IF m.io = 0 THEN Failed(m) ELSE [IoDone(m) EXCEPT !.log = Append(@, ev)]

log_simple(m, tag) == IF ~log_open THEN m ELSE log_write(m, Event(tag, -1, -1))

log_key(m, key) ==
  IF key < 0 \/ key > 255 THEN Failed(m)
  ELSE IF ~log_open THEN m ELSE log_write(m, Event("key", key, -1))

log_group(m, tag, group_index) ==
  IF ~(group_index < MAX_GROUPS) THEN Failed(m)
  ELSE IF ~log_open THEN m ELSE log_write(m, Event(tag, group_index, -1))

log_shuffle(m, tag, group_index) ==
  IF ~(group_index < MAX_GROUPS) THEN Failed(m)
  ELSE IF ~log_open THEN m ELSE log_write(m, Event(tag, group_index, -1))

log_prompt(m, group_index, item_index) ==
  IF ~(group_index < session.group_count /\ item_index < session.item_count)
  THEN Failed(m)
  ELSE IF ~log_open THEN m
  ELSE IF session.groups[group_index].name_offset + session.groups[group_index].name_length
            > session.buffer_len
          \/ session.items[item_index].offset + session.items[item_index].length
            > session.buffer_len
  THEN Failed(m)
  ELSE log_write(m, Event("prompt", group_index, item_index))

(***************************************************************************)
(* runner.c                                                                *)
(***************************************************************************)
\* assert_session_bounds as it would be if it did not look at the groups
assert_session_bounds_counting(s) ==
  /\ s.group_count > 0
  /\ s.group_count <= MAX_GROUPS

assert_session_bounds(s) ==
  /\ s.group_count > 0
  /\ s.group_count <= MAX_GROUPS
  /\ \A i \in 0..(s.group_count - 1) :
       s.groups[i].item_count > 0 /\ s.groups[i].item_count <= MAX_ITEMS_PER_GROUP

\* now_ms: the clock read can fail
now_ms(m) == IF m.io = 0 THEN Failed(m) ELSE IoDone(m)

\* draw_prompt clears the screen and writes the item; the screen is left
\* without a prompt when a write fails
draw_prompt(m, item_index) ==
  IF ~(item_index < session.item_count) \/ ~(session.buffer_len > 0) THEN Failed(m)
  ELSE IF ~(session.items[item_index].length > 0)
          \/ session.items[item_index].offset + session.items[item_index].length
               > session.buffer_len
  THEN Failed(m)
  ELSE IF m.io = 0 THEN [Failed(m) EXCEPT !.screen = -1]
  ELSE [IoDone(m) EXCEPT !.screen = item_index,
                         !.item_cycle = Append(@, item_index)]

\* is_advance_key as it would be if every key but the quit key advanced
is_advance_key_any(key) ==
  key # 3

is_advance_key(key) ==
  IF key < 0 \/ key > 255 THEN FALSE
  ELSE IF key \in {32, 13, 10} THEN TRUE
  ELSE key \in (48..57) \cup (65..90) \cup (97..122)     \* isalnum in the C locale

\* init_group_order as it would be if it filled the order with the first group
init_group_order_zero(m) ==
  IF ~assert_session_bounds(session) THEN Failed(m)
  ELSE [m EXCEPT !.group_order =
          [i \in 0..(MAX_GROUPS - 1) |->
             IF i < session.group_count THEN 0 ELSE m.group_order[i]]]

init_group_order(m) ==
  IF ~assert_session_bounds(session) THEN Failed(m)
  ELSE [m EXCEPT !.group_order =
          [i \in 0..(MAX_GROUPS - 1) |->
             IF i < session.group_count THEN i ELSE m.group_order[i]]]

\* init_item_order as it would be if it left item_order as it was
init_item_order_keeping(m, group_index) ==
  IF ~(group_index < session.group_count) THEN Failed(m)
  ELSE LET count == session.groups[group_index].item_count
       IN  IF ~(count > 0 /\ count <= MAX_ITEMS_PER_GROUP) THEN Failed(m) ELSE m

init_item_order(m, group_index) ==
  IF ~(group_index < session.group_count) THEN Failed(m)
  ELSE LET count == session.groups[group_index].item_count
           start == session.groups[group_index].item_start
       IN  IF ~(count > 0 /\ count <= MAX_ITEMS_PER_GROUP) THEN Failed(m)
           ELSE [m EXCEPT !.item_order =
                   [i \in 0..(MAX_ITEMS_PER_GROUP - 1) |->
                      IF i < count THEN start + i ELSE m.item_order[i]]]

\* select_next_group as it would be if it did not move order_pos on
select_next_group_staying(m, jg) ==
  LET group_count == session.group_count IN
  IF ~(group_count > 0) THEN Failed(m)
  ELSE
  LET m1 == IF m.rt.order_pos >= group_count
            THEN LET sh == rng_shuffle_groups(m.group_order, group_count, jg)
                 IN  IF sh.rc # 0 THEN Failed(m)
                     ELSE log_simple([m EXCEPT !.group_order = sh.values,
                                               !.rt.order_pos = 0,
                                               !.group_cycle = <<>>], "shuffle")
            ELSE m
  IN
  IF m1.rc # 0 THEN m1
  ELSE LET g == m1.group_order[m1.rt.order_pos]
           m2 == [m1 EXCEPT !.rt.group_index = g]
       IN  IF ~(g < group_count) THEN Failed(m2)
           ELSE [m2 EXCEPT !.group_cycle = Append(@, g)]

select_next_group(m, jg) ==
  LET group_count == session.group_count IN
  IF ~(group_count > 0) THEN Failed(m)
  ELSE
  LET m1 == IF m.rt.order_pos >= group_count
            THEN LET sh == rng_shuffle_groups(m.group_order, group_count, jg)
                 IN  IF sh.rc # 0 THEN Failed(m)
                     ELSE log_simple([m EXCEPT !.group_order = sh.values,
                                               !.rt.order_pos = 0,
                                               !.group_cycle = <<>>], "shuffle")
            ELSE m
  IN
  IF m1.rc # 0 THEN m1
  ELSE LET g == m1.group_order[m1.rt.order_pos]
           m2 == [m1 EXCEPT !.rt.group_index = g]
       IN  IF ~(g < group_count) THEN Failed(m2)
           ELSE [m2 EXCEPT !.rt.order_pos = @ + 1, !.group_cycle = Append(@, g)]

\* select_next_item as it would be if it always took the first of item_order
select_first_item(m) ==
  IF ~(m.rt.group_index < session.group_count) THEN Failed(m)
  ELSE LET count == session.groups[m.rt.group_index].item_count
       IN  IF ~(count > 0 /\ count <= MAX_ITEMS_PER_GROUP) THEN Failed(m)
           ELSE [m EXCEPT !.rt.item_pos = 0, !.rt.item_index = m.item_order[0]]

\* select_next_item as it would be if it left item_index as it was
select_next_item_stale(m) ==
  IF ~(m.rt.group_index < session.group_count) THEN Failed(m)
  ELSE LET count == session.groups[m.rt.group_index].item_count
       IN  IF ~(count > 0 /\ count <= MAX_ITEMS_PER_GROUP) THEN Failed(m)
           ELSE LET pos == IF m.rt.item_pos >= count THEN 0 ELSE m.rt.item_pos
                IN  [m EXCEPT !.rt.item_pos = pos]

select_next_item(m) ==
  IF ~(m.rt.group_index < session.group_count) THEN Failed(m)
  ELSE LET count == session.groups[m.rt.group_index].item_count
       IN  IF ~(count > 0 /\ count <= MAX_ITEMS_PER_GROUP) THEN Failed(m)
           ELSE LET pos == IF m.rt.item_pos >= count THEN 0 ELSE m.rt.item_pos
                IN  [m EXCEPT !.rt.item_pos = pos, !.rt.item_index = m.item_order[pos]]

update_group_timer(m) ==
  IF ~(m.rt.group_index < session.group_count) THEN Failed(m)
  ELSE LET seconds == session.groups[m.rt.group_index].seconds
       IN  IF ~(seconds > 0 /\ seconds <= MAX_GROUP_SECONDS) THEN Failed(m)
           ELSE LET m1 == now_ms(m)
                IN  IF m1.rc # 0 THEN m1
                    ELSE [m1 EXCEPT !.rt.group_end = now + seconds * 1000]

\* the end of advance_prompt and of init_runtime's first prompt
show_item(m) ==
  LET m1 == select_next_item(m) IN
  IF m1.rc # 0 THEN m1
  ELSE LET m2 == draw_prompt(m1, m1.rt.item_index)
       IN  IF m2.rc # 0 THEN m2
           ELSE log_prompt(m2, m2.rt.group_index, m2.rt.item_index)

\* advance_prompt as it would be if an advance inside the group rearmed the timer
advance_prompt_rearming(m, due_to_switch, ji) ==
  LET r ==
      IF ~(m.rt.group_index < session.group_count) THEN Failed(m)
      ELSE
      LET count == session.groups[m.rt.group_index].item_count IN
      IF ~(count > 0 /\ count <= MAX_ITEMS_PER_GROUP) THEN Failed(m)
      ELSE IF due_to_switch
      THEN LET m1 == init_item_order(m, m.rt.group_index) IN
           IF m1.rc # 0 THEN m1
           ELSE LET sh == rng_shuffle_items(m1.item_order, count, ji) IN
           IF sh.rc # 0 THEN Failed(m1)
           ELSE LET m2 == update_group_timer([m1 EXCEPT !.item_order = sh.values,
                                                        !.rt.item_pos = 0,
                                                        !.item_cycle = <<>>]) IN
           IF m2.rc # 0 THEN m2
           ELSE LET m3 == log_group(m2, "group", m2.rt.group_index) IN
           IF m3.rc # 0 THEN m3 ELSE show_item(m3)
      ELSE LET m1 == [m EXCEPT !.rt.item_pos = @ + 1] IN
           IF m1.rt.item_pos >= count
           THEN LET sh == rng_shuffle_items(m1.item_order, count, ji) IN
                IF sh.rc # 0 THEN Failed(m1)
                ELSE LET m2 == log_shuffle([m1 EXCEPT !.item_order = sh.values,
                                                     !.rt.item_pos = 0,
                                                     !.item_cycle = <<>>],
                                           "items", m1.rt.group_index) IN
                IF m2.rc # 0 THEN m2 ELSE show_item(m2)
           ELSE show_item(m1)
  IN  IF r.rc # 0 \/ due_to_switch THEN r ELSE update_group_timer(r)

advance_prompt(m, due_to_switch, ji) ==
  IF ~(m.rt.group_index < session.group_count) THEN Failed(m)
  ELSE
  LET count == session.groups[m.rt.group_index].item_count IN
  IF ~(count > 0 /\ count <= MAX_ITEMS_PER_GROUP) THEN Failed(m)
  ELSE IF due_to_switch
  THEN LET m1 == init_item_order(m, m.rt.group_index) IN
       IF m1.rc # 0 THEN m1
       ELSE LET sh == rng_shuffle_items(m1.item_order, count, ji) IN
       IF sh.rc # 0 THEN Failed(m1)
       ELSE LET m2 == update_group_timer([m1 EXCEPT !.item_order = sh.values,
                                                    !.rt.item_pos = 0,
                                                    !.item_cycle = <<>>]) IN
       IF m2.rc # 0 THEN m2
       ELSE LET m3 == log_group(m2, "group", m2.rt.group_index) IN
       IF m3.rc # 0 THEN m3 ELSE show_item(m3)
  ELSE LET m1 == [m EXCEPT !.rt.item_pos = @ + 1] IN
       IF m1.rt.item_pos >= count
       THEN LET sh == rng_shuffle_items(m1.item_order, count, ji) IN
            IF sh.rc # 0 THEN Failed(m1)
            ELSE LET m2 == log_shuffle([m1 EXCEPT !.item_order = sh.values,
                                                 !.rt.item_pos = 0,
                                                 !.item_cycle = <<>>],
                                       "items", m1.rt.group_index) IN
            IF m2.rc # 0 THEN m2 ELSE show_item(m2)
       ELSE show_item(m1)

\* update_expiry as it would be if it logged the expiry without setting
\* pending_switch
update_expiry_not_pending(m) ==
  IF ~(m.rt.group_index < session.group_count) THEN Failed(m)
  ELSE LET m0 == [m EXCEPT !.remaining_ms = 0] IN
  IF m0.rt.pending_switch THEN m0
  ELSE LET m1 == now_ms(m0) IN
  IF m1.rc # 0 THEN m1
  ELSE IF now >= m1.rt.group_end
  THEN log_group(m1, "expired", m1.rt.group_index)
  ELSE [m1 EXCEPT !.remaining_ms = m1.rt.group_end - now]

\* update_expiry as it would be if it read the clock with a switch pending too
update_expiry_rechecking(m) ==
  IF ~(m.rt.group_index < session.group_count) THEN Failed(m)
  ELSE LET m0 == [m EXCEPT !.remaining_ms = 0] IN
  LET m1 == now_ms(m0) IN
  IF m1.rc # 0 THEN m1
  ELSE IF now >= m1.rt.group_end
  THEN log_group([m1 EXCEPT !.rt.pending_switch = TRUE], "expired", m1.rt.group_index)
  ELSE [m1 EXCEPT !.remaining_ms = m1.rt.group_end - now]

update_expiry(m) ==
  IF ~(m.rt.group_index < session.group_count) THEN Failed(m)
  ELSE LET m0 == [m EXCEPT !.remaining_ms = 0] IN
  IF m0.rt.pending_switch THEN m0
  ELSE LET m1 == now_ms(m0) IN
  IF m1.rc # 0 THEN m1
  ELSE IF now >= m1.rt.group_end
  THEN log_group([m1 EXCEPT !.rt.pending_switch = TRUE], "expired", m1.rt.group_index)
  ELSE [m1 EXCEPT !.remaining_ms = m1.rt.group_end - now]

\* handle_key as it would be if the quit key were ignored while a switch is pending
handle_key_quit_unless_pending(m, key, jg, ji) ==
  LET m1 == log_key(m, key) IN
  IF m1.rc # 0 THEN m1
  ELSE IF key = 3 /\ ~m1.rt.pending_switch THEN [m1 EXCEPT !.rc = 1]
  ELSE IF ~is_advance_key(key) THEN m1
  ELSE IF m1.rt.pending_switch
  THEN LET m2 == select_next_group(m1, jg) IN
       IF m2.rc # 0 THEN m2
       ELSE LET m3 == advance_prompt([m2 EXCEPT !.rt.pending_switch = FALSE], TRUE, ji)
            IN  IF m3.rc # 0 THEN m3 ELSE [m3 EXCEPT !.advanced = TRUE]
  ELSE LET m2 == advance_prompt(m1, FALSE, ji)
       IN  IF m2.rc # 0 THEN m2 ELSE [m2 EXCEPT !.advanced = TRUE]

\* handle_key as it would be if a key that does not advance dropped a pending switch
handle_key_clearing(m, key, jg, ji) ==
  LET m1 == log_key(m, key) IN
  IF m1.rc # 0 THEN m1
  ELSE IF key = 3 THEN [m1 EXCEPT !.rc = 1]
  ELSE IF ~is_advance_key(key) THEN [m1 EXCEPT !.rt.pending_switch = FALSE]
  ELSE IF m1.rt.pending_switch
  THEN LET m2 == select_next_group(m1, jg) IN
       IF m2.rc # 0 THEN m2
       ELSE LET m3 == advance_prompt([m2 EXCEPT !.rt.pending_switch = FALSE], TRUE, ji)
            IN  IF m3.rc # 0 THEN m3 ELSE [m3 EXCEPT !.advanced = TRUE]
  ELSE LET m2 == advance_prompt(m1, FALSE, ji)
       IN  IF m2.rc # 0 THEN m2 ELSE [m2 EXCEPT !.advanced = TRUE]

\* handle_key as it would be if it logged only the keys that advance
handle_key_classifying_first(m, key, jg, ji) ==
  IF key = 3 THEN [m EXCEPT !.rc = 1]
  ELSE IF ~is_advance_key(key) THEN m
  ELSE LET m1 == log_key(m, key) IN
  IF m1.rc # 0 THEN m1
  ELSE IF m1.rt.pending_switch
  THEN LET m2 == select_next_group(m1, jg) IN
       IF m2.rc # 0 THEN m2
       ELSE LET m3 == advance_prompt([m2 EXCEPT !.rt.pending_switch = FALSE], TRUE, ji)
            IN  IF m3.rc # 0 THEN m3 ELSE [m3 EXCEPT !.advanced = TRUE]
  ELSE LET m2 == advance_prompt(m1, FALSE, ji)
       IN  IF m2.rc # 0 THEN m2 ELSE [m2 EXCEPT !.advanced = TRUE]

\* handle_key returns 1 in m.rc for the quit key
handle_key(m, key, jg, ji) ==
  LET m1 == log_key(m, key) IN
  IF m1.rc # 0 THEN m1
  ELSE IF key = 3 THEN [m1 EXCEPT !.rc = 1]
  ELSE IF ~is_advance_key(key) THEN m1
  ELSE IF m1.rt.pending_switch
  THEN LET m2 == select_next_group(m1, jg) IN
       IF m2.rc # 0 THEN m2
       ELSE LET m3 == advance_prompt([m2 EXCEPT !.rt.pending_switch = FALSE], TRUE, ji)
            IN  IF m3.rc # 0 THEN m3 ELSE [m3 EXCEPT !.advanced = TRUE]
  ELSE LET m2 == advance_prompt(m1, FALSE, ji)
       IN  IF m2.rc # 0 THEN m2 ELSE [m2 EXCEPT !.advanced = TRUE]

\* init_runtime as it would be if it armed the timer before the first prompt
init_runtime_arming_first(m, jg, ji) ==
  IF ~(session.group_count > 0) THEN Failed(m)
  ELSE
  LET m0 == [m EXCEPT !.rt = [order_pos |-> 0, group_index |-> 0, item_pos |-> 0,
                              item_index |-> 0, group_end |-> 0,
                              pending_switch |-> FALSE]]
      m1 == init_group_order(m0)
  IN
  IF m1.rc # 0 THEN m1
  ELSE LET sh == rng_shuffle_groups(m1.group_order, session.group_count, jg) IN
  IF sh.rc # 0 THEN Failed(m1)
  ELSE LET m2 == select_next_group([m1 EXCEPT !.group_order = sh.values,
                                             !.group_cycle = <<>>], jg) IN
  IF m2.rc # 0 THEN m2
  ELSE LET m3 == init_item_order(m2, m2.rt.group_index) IN
  IF m3.rc # 0 THEN m3
  ELSE LET count == session.groups[m3.rt.group_index].item_count IN
  IF ~(count > 0 /\ count <= MAX_ITEMS_PER_GROUP) THEN Failed(m3)
  ELSE LET shi == rng_shuffle_items(m3.item_order, count, ji) IN
  IF shi.rc # 0 THEN Failed(m3)
  ELSE LET m4 == update_group_timer([m3 EXCEPT !.item_order = shi.values,
                                              !.item_cycle = <<>>]) IN
  IF m4.rc # 0 THEN m4 ELSE show_item(m4)

init_runtime(m, jg, ji) ==
  IF ~(session.group_count > 0) THEN Failed(m)
  ELSE
  LET m0 == [m EXCEPT !.rt = [order_pos |-> 0, group_index |-> 0, item_pos |-> 0,
                              item_index |-> 0, group_end |-> 0,
                              pending_switch |-> FALSE]]
      m1 == init_group_order(m0)
  IN
  IF m1.rc # 0 THEN m1
  ELSE LET sh == rng_shuffle_groups(m1.group_order, session.group_count, jg) IN
  IF sh.rc # 0 THEN Failed(m1)
  ELSE LET m2 == select_next_group([m1 EXCEPT !.group_order = sh.values,
                                             !.group_cycle = <<>>], jg) IN
  IF m2.rc # 0 THEN m2
  ELSE LET m3 == init_item_order(m2, m2.rt.group_index) IN
  IF m3.rc # 0 THEN m3
  ELSE LET count == session.groups[m3.rt.group_index].item_count IN
  IF ~(count > 0 /\ count <= MAX_ITEMS_PER_GROUP) THEN Failed(m3)
  ELSE LET shi == rng_shuffle_items(m3.item_order, count, ji) IN
  IF shi.rc # 0 THEN Failed(m3)
  ELSE LET m4 == show_item([m3 EXCEPT !.item_order = shi.values, !.item_cycle = <<>>]) IN
  IF m4.rc # 0 THEN m4 ELSE update_group_timer(m4)

(***************************************************************************)
(* main.c: run_program.  setup_session is the parser above; the steps      *)
(* after it follow here, one action per call.                              *)
(***************************************************************************)
\* the process ends: main returns 0 when run_program returned 0, else 1
\* the three lines of print_usage
UsageLines == 3

\* print_usage: the lines are written in order and the first failed write
\* ends it with -1
print_usage(printed) ==
  [rc |-> IF printed = UsageLines THEN 0 ELSE -1,
   out |-> [n \in 1..printed |-> "usage"]]

HelpArgs == {"-h", "--help"}

\* main up to the call of run_program: argc is Len(argv) + 1
Main ==
  /\ pc = "main"
  /\ IF Len(argv) = 1 /\ argv[1] \in HelpArgs
     THEN \E printed \in 0..UsageLines :
            LET u == print_usage(printed)
            IN  /\ stdout' = stdout \o u.out
                /\ exit_code' = IF u.rc = 0 THEN 0 ELSE 1
                /\ rc' = u.rc
                /\ pc' = "exit"
     ELSE IF Len(argv) # 1
     THEN \E printed \in 0..UsageLines :
            LET u == print_usage(printed)
            IN  /\ stdout' = stdout \o u.out
                /\ exit_code' = 1
                /\ rc' = u.rc
                /\ pc' = "exit"
     ELSE IF argv[1] = ""                       \* run_program's check of path[0]
     THEN /\ exit_code' = 1
          /\ rc' = -1
          /\ pc' = "exit"
          /\ UNCHANGED stdout
     ELSE /\ pc' = "read"
          /\ UNCHANGED <<stdout, rc, exit_code>>
  /\ UNCHANGED <<parse_vars, argv, rng_call, keys, rt, group_order, item_order, loop, now,
                 log_open, log, screen, term, stderr, group_cycle, item_cycle>>

Exit(code) ==
  /\ rc' = code
  /\ exit_code' = IF code = 0 THEN 0 ELSE 1
  /\ pc' = "exit"

\* setup_session as it would be if it returned 0 after a failed parse
SetupSessionIgnoringFailure ==
  /\ pc = "parse_failed"
  /\ pc' = "parsed"
  /\ stderr' = Append(stderr, err_buf.msg)
  /\ UNCHANGED <<parse_vars, side_vars, rt, group_order, item_order, loop, now, log_open, log,
                 screen, term, rc, exit_code, group_cycle, item_cycle>>

\* setup_session after a failed parse: "Error: <message>" goes to standard
\* error and run_program returns -1
SetupSessionFailed ==
  /\ pc = "parse_failed"
  /\ \E printed \in BOOLEAN :
       stderr' = IF printed THEN Append(stderr, err_buf.msg) ELSE stderr
  /\ Exit(-1)
  /\ UNCHANGED <<parse_vars, side_vars, rt, group_order, item_order, loop, now, log_open, log,
                 screen, term, group_cycle, item_cycle>>

\* open_log, then rng_init (which cannot fail)
OpenLog ==
  /\ pc = "parsed"
  /\ \E opened \in BOOLEAN, written \in BOOLEAN :
       /\ log_open' = opened
       /\ IF opened
          THEN /\ log' = IF written THEN Append(log, Event("start", -1, -1)) ELSE log
               /\ UNCHANGED stderr
          ELSE /\ stderr' = IF written THEN Append(stderr, "Warning: failed to open cram.log")
                            ELSE stderr
               /\ UNCHANGED log
       /\ IF written
          THEN pc' = "init_runtime" /\ UNCHANGED <<rc, exit_code>>
          ELSE Exit(-1)
  /\ UNCHANGED <<parse_vars, side_vars, rt, group_order, item_order, loop, now, screen, term,
                 group_cycle, item_cycle>>

\* the largest item_count of a group of the session
MaxItemCount ==
  LET counts == {session.groups[g].item_count : g \in 0..(session.group_count - 1)}
  IN  CHOOSE c \in counts : \A d \in counts : d <= c

\* what a runner function leaves in the runner's variables
Leaves(m) ==
  /\ rt' = m.rt
  /\ group_order' = m.group_order
  /\ item_order' = m.item_order
  /\ log' = m.log
  /\ screen' = m.screen
  /\ group_cycle' = m.group_cycle
  /\ item_cycle' = m.item_cycle

InitRuntime ==
  /\ pc = "init_runtime"
  /\ \E io \in IoChoices, jg \in Draws(session.group_count), ji \in Draws(MaxItemCount) :
       LET m == init_runtime(Machine(io), jg, ji)
       IN  /\ Leaves(m)
           /\ IF m.rc = 0
              THEN pc' = "enter_raw" /\ UNCHANGED <<rc, exit_code>>
              ELSE Exit(-1)
  /\ UNCHANGED <<parse_vars, side_vars, loop, now, log_open, term, stderr>>

\* run_with_terminal: term_enter_raw
EnterRaw ==
  /\ pc = "enter_raw"
  /\ \E ok \in BOOLEAN, printed \in BOOLEAN :
       IF term.active = 0 /\ ok
       THEN /\ term' = [term EXCEPT !.active = 1, !.raw = TRUE]
            /\ pc' = "hide_cursor"
            /\ UNCHANGED <<err_buf, stderr, rc, exit_code>>
       ELSE /\ err_buf' = set_error("Failed to set terminal raw mode")
            /\ stderr' = IF printed THEN Append(stderr, err_buf'.msg) ELSE stderr
            /\ Exit(-1)
            /\ UNCHANGED term
  /\ UNCHANGED <<file, session, state, line_start, side_vars, rt, group_order, item_order, loop, now,
                 log_open, log, screen, group_cycle, item_cycle>>

\* run_with_terminal: term_hide_cursor, then the entry of run_loop
HideCursor ==
  /\ pc = "hide_cursor"
  /\ \E ok \in BOOLEAN :
       IF ok
       THEN /\ term' = [term EXCEPT !.cursor = FALSE]
            /\ loop' = [loop EXCEPT !.step = 1, !.wait = 0]
            /\ IF session.group_count > 0 /\ 1 < MAX_PROMPTS_PER_RUN
               THEN pc' = "wait" /\ UNCHANGED rc
               ELSE pc' = "restore" /\ rc' = IF session.group_count > 0 THEN 0 ELSE -1
            /\ UNCHANGED exit_code
       ELSE /\ Exit(-1)
            /\ UNCHANGED <<term, loop>>
  /\ UNCHANGED <<parse_vars, side_vars, rt, group_order, item_order, now, log_open, log, screen,
                 stderr, group_cycle, item_cycle>>

(***************************************************************************)
(* run_loop and run_wait_loop, one action per call of an iteration.        *)
(***************************************************************************)
\* run_loop after run_wait_loop has returned m.rc: the return code of
\* run_loop, or 2 when the loop goes on to its next step
run_loop_step(m) ==
  IF m.rc < 0 THEN [m EXCEPT !.rc = -1]
  ELSE IF m.rc > 0 THEN [m EXCEPT !.rc = 0]
  ELSE IF ~m.advanced THEN Failed(log_simple(m, "wait loop exceeded"))
  ELSE IF loop.step + 1 < MAX_PROMPTS_PER_RUN THEN [m EXCEPT !.rc = 2]
  ELSE [m EXCEPT !.rc = 0]

\* run_wait_loop has returned m.rc
WaitLoopReturns(m) ==
  LET r == run_loop_step(m)
  IN  /\ Leaves(r)
      /\ IF r.rc = 2
         THEN /\ loop' = [step |-> loop.step + 1, wait |-> 0, remaining_ms |-> 0,
                          key |-> 0, read |-> "none"]
              /\ pc' = "wait"
              /\ UNCHANGED rc
         ELSE /\ rc' = r.rc
              /\ pc' = "restore"
              /\ UNCHANGED loop

UpdateExpiry ==
  /\ pc = "wait"
  /\ loop.wait < MAX_WAIT_LOOPS
  /\ \E io \in {-1, 0, 1} :
       LET m == update_expiry(Machine(io))
       IN  IF m.rc # 0
           THEN WaitLoopReturns(m)
           ELSE /\ Leaves(m)
                /\ loop' = [loop EXCEPT !.remaining_ms = m.remaining_ms, !.read = "none"]
                /\ pc' = "read_key"
                /\ UNCHANGED rc
  /\ UNCHANGED <<parse_vars, side_vars, now, log_open, term, stderr, exit_code>>

\* the wait loop as it would be if it had no cap and stayed where it is
WaitLoopSpinning ==
  /\ pc = "wait"
  /\ loop.wait >= MAX_WAIT_LOOPS
  /\ UNCHANGED vars

\* the wait loop has used up its MAX_WAIT_LOOPS iterations
WaitLoopExceeded ==
  /\ pc = "wait"
  /\ loop.wait >= MAX_WAIT_LOOPS
  /\ WaitLoopReturns(Failed(Machine(-1)))
  /\ UNCHANGED <<parse_vars, side_vars, now, log_open, term, stderr, exit_code>>

Keys == {3, 32, 27}

\* read_key's timeout as it would be if a pending switch did not matter
key_timeout_timed(pending_switch, remaining_ms) ==
  remaining_ms

\* the timeout read_key passes to term_read_key_timeout
key_timeout(pending_switch, remaining_ms) ==
  IF pending_switch THEN -1 ELSE remaining_ms

\* the time a call of select() can take: none, a tick, or the whole timeout.
\* With no timeout (a pending switch) the program sets group_end anew from
\* the next clock read, so the time that passes there is not enumerated.
Elapsed(timeout) ==
  IF timeout < 0 THEN {0} ELSE {e \in {0, TickMs, timeout} : e <= timeout}

\* what select() and read() can do in term_read_key_timeout: select() times
\* out, is interrupted or fails, or the descriptor is ready and read()
\* delivers a byte, is interrupted, meets the end of input or fails
ReadEvents ==
  {"timeout", "select_eintr", "select_error", "byte", "read_eintr", "eof", "read_error"}

\* term_read_key_timeout as it would be if it asked again at the end of input
term_read_key_timeout_patient(ev) ==
  IF ev \in {"timeout", "select_eintr", "read_eintr", "eof"} THEN 0
  ELSE IF ev = "byte" THEN 1
  ELSE -1

\* term_read_key_timeout: 1 with a key, 0 with none, -1 on failure
term_read_key_timeout(ev) ==
  IF ev = "select_eintr" THEN 0
  ELSE IF ev = "select_error" THEN -1
  ELSE IF ev = "timeout" THEN 0
  ELSE IF ev = "byte" THEN 1
  ELSE IF ev = "read_eintr" THEN 0
  ELSE -1

\* read_key and term_read_key_timeout: select() with the timeout, then read()
ReadKey ==
  /\ pc = "read_key"
  /\ IF loop.remaining_ms > MAX_GROUP_MILLISECONDS
     THEN WaitLoopReturns(Failed(Machine(-1))) /\ UNCHANGED now
     ELSE LET timeout == key_timeout(rt.pending_switch, loop.remaining_ms) IN
          \E ev \in ReadEvents, e \in Elapsed(timeout) :
            /\ ev = "timeout" => timeout >= 0 /\ e = timeout
            /\ LET r == term_read_key_timeout(ev) IN
               CASE r < 0 ->              \* run_wait_loop and run_loop return -1
                      /\ Leaves(Machine(-1))
                      /\ rc' = -1
                      /\ pc' = "restore"
                      /\ loop' = [loop EXCEPT !.read = ev]
                      /\ UNCHANGED now
                 [] r = 0 ->
                      /\ now' = now + e
                      /\ loop' = [loop EXCEPT !.wait = @ + 1, !.remaining_ms = 0,
                                              !.read = ev]
                      /\ pc' = "wait"
                      /\ UNCHANGED <<rt, group_order, item_order, log, screen, rc,
                                     group_cycle, item_cycle>>
                 [] r > 0 ->
                      /\ \E k \in keys : loop' = [loop EXCEPT !.key = k, !.remaining_ms = 0,
                                                              !.read = ev]
                      /\ now' = now + e
                      /\ pc' = "handle_key"
                      /\ UNCHANGED <<rt, group_order, item_order, log, screen, rc,
                                     group_cycle, item_cycle>>
  /\ UNCHANGED <<parse_vars, side_vars, log_open, term, stderr, exit_code>>

HandleKey ==
  /\ pc = "handle_key"
  /\ \E io \in IoChoices, jg \in Draws(session.group_count), ji \in Draws(MaxItemCount) :
       LET m == handle_key(Machine(io), loop.key, jg, ji)
       IN  IF m.rc = 0 /\ ~m.advanced
           THEN /\ Leaves(m)
                /\ loop' = [loop EXCEPT !.wait = @ + 1, !.key = 0, !.read = "none"]
                /\ pc' = "wait"
                /\ UNCHANGED rc
           ELSE WaitLoopReturns(m)
  /\ UNCHANGED <<parse_vars, side_vars, now, log_open, term, stderr, exit_code>>

\* run_with_terminal after run_loop: term_restore, term_show_cursor and
\* term_clear_screen, then run_program's test of the result
Restore ==
  /\ pc = "restore"
  /\ \E restored \in BOOLEAN, shown \in BOOLEAN, cleared \in BOOLEAN :
       /\ term' = [active |-> 0,
                   raw |-> IF term.active = 1 /\ ~restored THEN term.raw ELSE FALSE,
                   cursor |-> shown \/ term.cursor]
       /\ screen' = IF cleared THEN -1 ELSE screen
       /\ IF restored /\ shown /\ cleared /\ rc = 0
          THEN pc' = "close_log" /\ UNCHANGED <<rc, exit_code>>
          ELSE Exit(-1)
  /\ UNCHANGED <<parse_vars, side_vars, rt, group_order, item_order, loop, now, log_open, log,
                 stderr, group_cycle, item_cycle>>

\* close_log, and the end of run_program
CloseLog ==
  /\ pc = "close_log"
  /\ IF ~log_open
     THEN Exit(0) /\ UNCHANGED <<log, log_open>>
     ELSE \E written \in BOOLEAN, closed \in BOOLEAN :
            /\ log' = IF written THEN Append(log, Event("exit", -1, -1)) ELSE log
            /\ log_open' = ~(written /\ closed)
            /\ Exit(IF written /\ closed THEN 0 ELSE -1)
  /\ UNCHANGED <<parse_vars, side_vars, rt, group_order, item_order, loop, now, screen, term,
                 stderr, group_cycle, item_cycle>>

(***************************************************************************)
(* The session files of Spec: one group of one item, one group of three    *)
(* items, two groups, three groups, and a file with a malformed header.    *)
(***************************************************************************)
HeaderOne == <<"[", "a", "|", "1", "]">>
HeaderTwo == <<"[", "a", "|", "2", "]">>
RunTexts ==
  { JoinLines(<<HeaderOne, <<"a">> >>),
    JoinLines(<<HeaderOne, <<"a">>, <<"a">>, <<"a">> >>),
    JoinLines(<<HeaderOne, <<"a">>, HeaderTwo, <<"a">>, <<"a">> >>),
    JoinLines(<<HeaderOne, <<"a">>, HeaderOne, <<"a">>, HeaderOne, <<"a">> >>),
    JoinLines(<<<<"[", "a", "]">>, <<"a">> >>) }

\* the argument lists main is started with
Args == {<<>>, <<"-h">>, <<"--help">>, <<"">>, <<"session">>, <<"session", "-h">>}

\* the process at the entry of main
Init ==
  /\ file \in RunTexts
  /\ argv \in Args
  /\ rng_call = NoCall
  /\ keys = Keys
  /\ pc = "main"
  /\ InitMemory

(***************************************************************************)
(* The program with a terminal that delivers bytes of every class of       *)
(* is_advance_key, on the smallest session and on the file that fails.     *)
(***************************************************************************)
KeyBytes == {3, 13, 27, 97}

InitKey ==
  /\ file \in {JoinLines(<<HeaderOne, <<"a">> >>), JoinLines(<<<<"[", "a", "]">>, <<"a">> >>)}
  /\ argv = <<"session">>
  /\ rng_call = NoCall
  /\ keys = KeyBytes
  /\ pc = "main"
  /\ InitMemory

Next ==
  \/ Main
  \/ ReadFile
  \/ ParseLine
  \/ ParseEnd
  \/ SetupSessionFailed
  \/ OpenLog
  \/ InitRuntime
  \/ EnterRaw
  \/ HideCursor
  \/ UpdateExpiry
  \/ WaitLoopExceeded
  \/ ReadKey
  \/ HandleKey
  \/ Restore
  \/ CloseLog

Spec == Init /\ [][Next]_vars

SpecKey == InitKey /\ [][Next]_vars

(***************************************************************************)
(* The program with a terminal that delivers no key and a clock that       *)
(* advances during every wait: select() returns at its timeout or is       *)
(* interrupted before it.  The wait loop takes its next step in the end.   *)
(***************************************************************************)
ClockAdvances == now' > now \/ pc' = "restore"

InitWait ==
  /\ file \in RunTexts
  /\ argv = <<"session">>
  /\ rng_call = NoCall
  /\ keys = {}
  /\ pc = "main"
  /\ InitMemory

NextWait ==
  \/ Main
  \/ ReadFile
  \/ ParseLine
  \/ ParseEnd
  \/ SetupSessionFailed
  \/ OpenLog
  \/ InitRuntime
  \/ EnterRaw
  \/ HideCursor
  \/ UpdateExpiry
  \/ WaitLoopExceeded
  \/ ReadKey /\ ClockAdvances
  \/ Restore

\* the steps of run_wait_loop: the program takes them as long as it runs
WaitLoopNext ==
  \/ UpdateExpiry
  \/ WaitLoopExceeded
  \/ ReadKey /\ ClockAdvances

SpecWait == InitWait /\ [][NextWait]_vars /\ WF_vars(WaitLoopNext)

(***************************************************************************)
(* SpecRunner: runner_run called on its own, with a session that need not  *)
(* come from the parser (groups of RunnerCounts items each, MaxRunGroups   *)
(* groups at most) and a terminal that is or is not in raw mode.           *)
(***************************************************************************)
RunnerCounts == {0, 1, 2, MAX_ITEMS_PER_GROUP + 1}

RECURSIVE SumTo(_, _)
SumTo(counts, n) == IF n = 0 THEN 0 ELSE SumTo(counts, n - 1) + counts[n]

\* a session of Len(counts) groups, items of one byte each
RunnerSession(counts) ==
  [buffer |-> [i \in 0..MAX_FILE_BYTES |-> IF i < MAX_ITEMS_TOTAL THEN "a" ELSE NUL],
   buffer_len |-> MAX_ITEMS_TOTAL,
   groups |-> [g \in 0..(MAX_GROUPS - 1) |->
                 IF g < Len(counts)
                 THEN [name_offset |-> 0, name_length |-> 1, seconds |-> 1,
                       item_start |-> SumTo(counts, g), item_count |-> counts[g + 1]]
                 ELSE ZeroGroup],
   group_count |-> Len(counts),
   items |-> [k \in 0..(MAX_ITEMS_TOTAL - 1) |-> [offset |-> k, length |-> 1]],
   item_count |-> Min(SumTo(counts, Len(counts)), MAX_ITEMS_TOTAL)]

RunnerSessions ==
  { RunnerSession(counts) :
      counts \in UNION {[1..n -> RunnerCounts] : n \in 0..MaxRunGroups} }

InitRunner ==
  /\ file = <<>>
  /\ argv = <<"session">>
  /\ stdout = <<>>
  /\ rng_call = NoCall
  /\ keys = {3}
  /\ session \in RunnerSessions
  /\ state = [line_no |-> 1, has_group |-> FALSE, current_group |-> 0]
  /\ line_start = 0
  /\ err_buf = NoError
  /\ rt = [order_pos |-> 0, group_index |-> 0, item_pos |-> 0, item_index |-> 0,
           group_end |-> 0, pending_switch |-> FALSE]
  /\ group_order = [i \in 0..(MAX_GROUPS - 1) |-> 0]
  /\ item_order = [i \in 0..(MAX_ITEMS_PER_GROUP - 1) |-> 0]
  /\ loop = [step |-> 0, wait |-> 0, remaining_ms |-> 0, key |-> 0, read |-> "none"]
  /\ now = 0
  /\ log_open \in BOOLEAN
  /\ log = <<>>
  /\ screen = -1
  /\ term \in {[active |-> 0, raw |-> FALSE, cursor |-> TRUE],
               [active |-> 1, raw |-> TRUE, cursor |-> FALSE]}
  /\ stderr = <<>>
  /\ rc = 0
  /\ exit_code = -1
  /\ group_cycle = <<>>
  /\ item_cycle = <<>>
  /\ pc = "runner_run"

\* runner_run up to the entry of run_loop's first step
RunnerRun ==
  /\ pc = "runner_run"
  /\ IF term.active # 1 \/ ~assert_session_bounds(session)
     THEN /\ rc' = -1
          /\ pc' = "returned"
          /\ UNCHANGED <<rt, group_order, item_order, loop, log, screen, group_cycle,
                         item_cycle>>
     ELSE \E io \in IoChoices, jg \in Draws(session.group_count), ji \in Draws(MaxItemCount) :
            LET m == init_runtime(Machine(io), jg, ji)
            IN  /\ Leaves(m)
                /\ IF m.rc # 0
                   THEN rc' = -1 /\ pc' = "returned" /\ UNCHANGED loop
                   ELSE /\ loop' = [loop EXCEPT !.step = 1, !.wait = 0]
                        /\ IF 1 < MAX_PROMPTS_PER_RUN
                           THEN pc' = "wait" /\ UNCHANGED rc
                           ELSE pc' = "returned" /\ rc' = 0
  /\ UNCHANGED <<parse_vars, side_vars, now, log_open, term, stderr, exit_code>>

\* runner_run after run_loop has returned
RunnerReturns ==
  /\ pc = "restore"
  /\ rc' = IF rc # 0 THEN -1 ELSE 0
  /\ pc' = "returned"
  /\ UNCHANGED <<parse_vars, side_vars, rt, group_order, item_order, loop, now, log_open,
                 log, screen, term, stderr, exit_code, group_cycle, item_cycle>>

NextRunner ==
  \/ RunnerRun
  \/ UpdateExpiry
  \/ WaitLoopExceeded
  \/ ReadKey
  \/ HandleKey
  \/ RunnerReturns

SpecRunner == InitRunner /\ [][NextRunner]_vars

(***************************************************************************)
(* Properties of the runner.  group_cycle holds the groups selected since  *)
(* the last shuffle of group_order, item_cycle the items drawn since the   *)
(* last shuffle of item_order.                                             *)
(***************************************************************************)
\* the positions of the program at which init_runtime has returned 0
Running == {"enter_raw", "hide_cursor", "wait", "read_key", "handle_key", "restore",
            "close_log"}

Injective(seq) == \A i, j \in DOMAIN seq : seq[i] = seq[j] => i = j
Range(seq) == {seq[i] : i \in DOMAIN seq}
IsPrefix(a, b) == Len(a) <= Len(b) /\ SubSeq(b, 1, Len(a)) = a

\* handle_key is about to handle an advance key
AdvanceKeyStep == pc = "handle_key" /\ is_advance_key(loop.key)

\* C1: the group activations that follow a shuffle of group_order select
\* pairwise different groups of the session, one per position of the order,
\* and group_order is shuffled again only after all group_count groups have
\* been selected: each group exactly once per cycle.
GroupCycleStep ==
  /\ pc' \in Running =>
       /\ Injective(group_cycle')
       /\ Range(group_cycle') \subseteq 0..(session.group_count - 1)
       /\ Len(group_cycle') = rt'.order_pos
       /\ Len(group_cycle') >= 1 => rt'.group_index = group_cycle'[Len(group_cycle')]
  /\ (pc \in Running /\ ~IsPrefix(group_cycle, group_cycle')) =>
       /\ Len(group_cycle) = session.group_count
       /\ Range(group_cycle) = 0..(session.group_count - 1)
       /\ Len(group_cycle') <= 1
GroupRotationComplete == [][GroupCycleStep]_vars

\* a cycle of three groups has been completed
GroupRotationWitness ==
  /\ pc \in Running
  /\ session.group_count = 3
  /\ Len(group_cycle) = 3

\* the items of the active group
ActiveItems ==
  LET g == session.groups[rt.group_index]
  IN  g.item_start..(g.item_start + g.item_count - 1)

\* C2: while a group stays active, the prompts shown after a shuffle of
\* item_order are pairwise different items of that group, and an advance
\* inside the group shuffles item_order and resets item_pos to 0 only when
\* item_pos reaches the group's item_count, after all its items were shown.
ItemCycleStep ==
  /\ pc' \in Running =>
       /\ Injective(item_cycle')
       /\ Range(item_cycle') \subseteq ActiveItems'
       /\ (pc' # "restore" \/ rc' >= 0) => Len(item_cycle') = rt'.item_pos + 1
       /\ pc' \in {"wait", "read_key", "handle_key"} =>
            screen' = item_cycle'[Len(item_cycle')]
  /\ (AdvanceKeyStep /\ ~rt.pending_switch) =>
       /\ rt'.group_index = rt.group_index
       /\ (item_order' # item_order \/ ~IsPrefix(item_cycle, item_cycle')
           \/ rt'.item_pos < rt.item_pos) =>
            /\ rt.item_pos + 1 = session.groups[rt.group_index].item_count
            /\ Range(item_cycle) = ActiveItems
            /\ rt'.item_pos = 0
       /\ (pc' # "restore" \/ rc' >= 0) =>
            \/ rt'.item_pos = rt.item_pos + 1
            \/ rt.item_pos + 1 = session.groups[rt.group_index].item_count
ItemRotationComplete == [][ItemCycleStep]_vars

\* all three items of a group have been shown in one cycle
ItemRotationWitness ==
  /\ pc \in Running
  /\ session.groups[rt.group_index].item_count = 3
  /\ Len(item_cycle) = 3

\* the events of the log that tell of the rotation
LogTags(tags) == {i \in DOMAIN log : log[i].tag \in tags}

\* every "group" event of the log comes after an "expired" event of the
\* group that was active, with no prompt and no other switch in between
ExpiredBeforeGroup ==
  \A i \in LogTags({"group"}) :
    \E j \in LogTags({"expired"}) :
      /\ j < i
      /\ \A l \in (j + 1)..(i - 1) : log[l].tag \in {"key", "shuffle"}
      /\ \E q \in LogTags({"prompt"}) :
           /\ q < j
           /\ log[q].a = log[j].a
           /\ \A l \in (q + 1)..(j - 1) : log[l].tag \notin {"prompt", "group"}

\* C3: once update_expiry has seen now >= group_end with no switch pending,
\* the switch is pending until an advance key is handled; handling it
\* selects the next group, rearms the timer and starts the group's items
\* anew, never an advance inside the group; and the log has the old group's
\* "expired" event before the "group" event of the switch.
ExpiryStep ==
  /\ (pc = "wait" /\ loop.wait < MAX_WAIT_LOOPS /\ ~rt.pending_switch
      /\ now >= rt.group_end /\ pc' # "restore") =>
       /\ rt'.pending_switch
       /\ log_open => log' = Append(log, Event("expired", rt.group_index, -1))
  /\ (rt.pending_switch /\ ~AdvanceKeyStep) => rt' = rt
  /\ (rt.pending_switch /\ AdvanceKeyStep /\ (pc' # "restore" \/ rc' >= 0)) =>
       /\ ~rt'.pending_switch
       /\ group_cycle' = IF Len(group_cycle) < session.group_count
                         THEN Append(group_cycle, rt'.group_index)
                         ELSE <<rt'.group_index>>
       /\ rt'.group_end = now + session.groups[rt'.group_index].seconds * 1000
       /\ rt'.item_pos = 0
       /\ Len(item_cycle') = 1
       /\ log_open =>
            \E i \in LogTags({"group"})' : i > Len(log) /\ log'[i].a = rt'.group_index
  /\ ExpiredBeforeGroup'
ExpiryForcesSwitch == [][ExpiryStep]_vars

\* a switch has followed an expiry, and the log tells of both
ExpirySwitchWitness ==
  /\ pc \in Running
  /\ LogTags({"group"}) # {}
  /\ ~rt.pending_switch

\* handle_key has performed a group switch
SwitchStep == AdvanceKeyStep /\ rt.pending_switch /\ ~rt'.pending_switch

\* C4, as claimed: in a session of two or more groups every group switch
\* makes a group active that differs from the one that expired, the
\* switches that shuffle group_order again included.
SwitchYieldsNewGroup ==
  [][(SwitchStep /\ session.group_count >= 2) => rt'.group_index # rt.group_index]_vars

\* C4, amended: in a session of two or more groups a group switch that does
\* not shuffle group_order again (order_pos below group_count) makes a group
\* active that differs from the one that expired.
SwitchInsideCycleYieldsNewGroup ==
  [][(SwitchStep /\ session.group_count >= 2 /\ rt.order_pos < session.group_count)
       => rt'.group_index # rt.group_index]_vars

\* a switch inside a cycle of the group order has happened
SwitchInsideCycleWitness ==
  /\ pc \in Running
  /\ session.group_count >= 2
  /\ Len(group_cycle) >= 2

\* C5: the run loop returns success (0) only after the quit key (code 3);
\* every other way of leaving it, the MAX_PROMPTS_PER_RUN cap included,
\* yields a failure.  At "restore" rc is what run_loop returned and
\* loop.key the last key that run_wait_loop read.
RunLoopSuccessOnlyOnQuit == (pc = "restore" /\ rc = 0) => loop.key = 3

\* C6: once term_enter_raw has succeeded, the program does not exit with
\* the terminal still in raw mode (TermState.active = 1).
TerminalRestoredAtExit == pc = "exit" => term.active = 0

\* C7: when parsing the session file fails, the next step of the program
\* prints the error message and exits with a non-zero code; term_enter_raw
\* is never called and the runner never starts: terminal, runtime and log
\* stay as they were at the start.
ParseFailureStep ==
  pc = "parse_failed" =>
    /\ pc' = "exit"
    /\ exit_code' = 1
    /\ stderr' \in {stderr, Append(stderr, err_buf.msg)}
    /\ term' = term /\ term.active = 0 /\ ~term.raw
    /\ rt' = rt /\ log' = log /\ log = <<>> /\ ~log_open'
    /\ group_cycle' = <<>> /\ item_cycle' = <<>> /\ screen' = -1
ParseFailureStopsProgram == [][ParseFailureStep]_vars

\* the program has exited on a parse error, the message printed
ParseFailureWitness ==
  /\ pc = "exit"
  /\ exit_code = 1
  /\ err_buf.line > 0
  /\ stderr = <<err_buf.msg>>
  /\ term.active = 0


(***************************************************************************)
(* rng.c                                                                   *)
(***************************************************************************)
RangeRunning == rng_call.op = "range" /\ rng_call.upper > 0

\* 2^w mod n for words of w = WordBits bits
WordsModulo(n) == (2^WordBits) % n

\* C14: a call rng_range(rng, n) with n > 0 returns a value in [0, n) after at
\* most RNG_RETRY_LIMIT + 1 draws: a draw is rejected only when it is below
\* 2^w mod n and fewer than RNG_RETRY_LIMIT draws were rejected before it, and
\* the draw after RNG_RETRY_LIMIT rejected ones is accepted whatever it is
RangeStep ==
  (RangeRunning /\ rng_call' # rng_call) =>
    LET r == rng_call'.word
        rejected == rng_call'.stage = "loop"
    IN  /\ rng_call'.draws = rng_call.draws + 1
        /\ rng_call'.draws <= RNG_RETRY_LIMIT + 1
        /\ rejected <=> (r < WordsModulo(rng_call.upper) /\ rng_call.i < RNG_RETRY_LIMIT)
        /\ rejected => rng_call'.i = rng_call.i + 1
        /\ rng_call.i = RNG_RETRY_LIMIT => rng_call'.stage = "done"
        /\ rng_call'.stage = "done" =>
             /\ rng_call'.result = r % rng_call.upper
             /\ rng_call'.result \in 0..(rng_call.upper - 1)

RangeBoundedAndTerminating == [][RangeStep]_vars

\* the draw after RNG_RETRY_LIMIT rejected ones was below the threshold and accepted
RangeWitness ==
  /\ RangeRunning
  /\ rng_call.stage = "done"
  /\ rng_call.draws = RNG_RETRY_LIMIT + 1
  /\ rng_call.word < WordsModulo(rng_call.upper)

\* the words a pass of the loop of rng_range(rng, upper) accepts
AcceptedWords(upper) ==
  {r \in Words : rng_range_step(RangeCall(upper), r).stage = "done"}

\* C15: for every n > 0 the words rng_range accepts inside its loop are the
\* words r >= 2^w mod n, and r mod n maps them onto each residue in [0, n) the
\* same number of times
RangeUnbiased ==
  (RangeRunning /\ rng_call.stage = "done") =>
    LET n == rng_call.upper
        accepted == AcceptedWords(n)
        hits(a) == Cardinality({r \in accepted :
                                  rng_range_step(RangeCall(n), r).result = a})
        first == hits(0)
    IN  /\ accepted = {r \in Words : r >= WordsModulo(n)}
        /\ \A a \in 0..(n - 1) : hits(a) = first

\* a call whose threshold is not 0 has rejected a word and accepted a later one
RangeUnbiasedWitness ==
  /\ RangeRunning
  /\ rng_call.stage = "done"
  /\ WordsModulo(rng_call.upper) > 0
  /\ rng_call.i > 0
  /\ rng_call.i < RNG_RETRY_LIMIT
  /\ rng_call.word >= WordsModulo(rng_call.upper)

Shuffling == rng_call.op \in {"shuffle_groups", "shuffle_items"}

ShuffleCapacity ==
  IF rng_call.op = "shuffle_groups" THEN MAX_GROUPS ELSE MAX_ITEMS_PER_GROUP

\* how often v occurs in values[0..count)
Occurrences(values, count, v) ==
  Cardinality({i \in 0..(count - 1) : values[i] = v})

SameMultiset(a, b, count) ==
  \A v \in Range(a) \cup Range(b) : Occurrences(a, count, v) = Occurrences(b, count, v)

\* C16: a shuffle of values[0..count) leaves a permutation of the previous
\* contents there and the elements from index count on as they were; with
\* count < 2 the array is unchanged and the call succeeds; with count above
\* the capacity the call fails and the array is unchanged
ShuffleStep ==
  (Shuffling /\ rng_call.stage = "call" /\ rng_call'.stage = "done") =>
    LET before == rng_call.values
        after == rng_call'.values
        count == rng_call.count
    IN  IF count > ShuffleCapacity
        THEN rng_call'.rc = -1 /\ after = before
        ELSE /\ rng_call'.rc = 0
             /\ DOMAIN after = DOMAIN before
             /\ SameMultiset(before, after, count)
             /\ \A i \in DOMAIN before : i >= count => after[i] = before[i]
             /\ count < 2 => after = before

ShufflePermutes == [][ShuffleStep]_vars

\* a shuffle of a full array has moved elements
ShuffleWitness ==
  /\ Shuffling
  /\ rng_call.stage = "done"
  /\ rng_call.rc = 0
  /\ rng_call.count = ShuffleCapacity
  /\ rng_call.values # rng_call.input

\* the choice sequences of a shuffle of count values: j_i in [0, i]
Choices(count) ==
  {js \in [1..(count - 1) -> 0..(count - 1)] : \A i \in 1..(count - 1) : js[i] <= i}

\* the arrangements of values[0..count) with the rest of the array in place
Arrangements(values, count) ==
  {p \in [DOMAIN values -> Range(values)] :
     /\ SameMultiset(values, p, count)
     /\ \A i \in DOMAIN values : i >= count => p[i] = values[i]}

DistinctInput ==
  \A i, j \in 0..(rng_call.count - 1) : i # j => rng_call.input[i] # rng_call.input[j]

\* C17: with each rng_range(i + 1) result a free choice j_i in [0, i], a shuffle
\* of distinct elements maps the choice sequences one-to-one onto the
\* permutations: the result comes from the choices made and from no other
\* choice sequence, and every permutation comes from some choice sequence
ShuffleBijective ==
  (Shuffling /\ rng_call.stage = "done" /\ rng_call.rc = 0 /\ DistinctInput) =>
    LET input == rng_call.input
        count == rng_call.count
    IN  /\ rng_call.js \in Choices(count)
        /\ \A js \in Choices(count) :
             shuffle_from(input, count, 1, js) = rng_call.values => js = rng_call.js
        /\ \A p \in Arrangements(input, count) :
             \E js \in Choices(count) : shuffle_from(input, count, 1, js) = p

\* a shuffle has reversed three distinct elements
ShuffleBijectiveWitness ==
  /\ Shuffling
  /\ rng_call.stage = "done"
  /\ rng_call.rc = 0
  /\ rng_call.count = 3
  /\ DistinctInput
  /\ \A i \in 0..2 : rng_call.values[i] = rng_call.input[2 - i]


(***************************************************************************)
(* The log and the exit code                                               *)
(***************************************************************************)
OpenLogStep == pc = "parsed" /\ pc' # "parsed"

\* C18: when the log cannot be opened, the open warns on standard error and
\* reports success, so that the run goes on to init_runtime, and from then on
\* nothing is written to the log and no step fails for it; when the log is
\* open, a step whose log write fails ends the run with a failure
LogFailureStep ==
  /\ (OpenLogStep /\ ~log_open') =>
       /\ stderr' = Append(stderr, "Warning: failed to open cram.log")
       /\ pc' = "init_runtime"
  /\ (~log_open /\ ~log_open') => log' = log
  /\ (pc = "close_log" /\ ~log_open /\ pc' = "exit") => exit_code' = 0
  /\ (OpenLogStep /\ log_open' /\ log' = log) => (pc' = "exit" /\ exit_code' = 1)
  /\ (pc = "handle_key" /\ log_open /\ log' = log /\ pc' # pc) =>
       (pc' = "restore" /\ rc' = -1)
  /\ (pc = "close_log" /\ log_open /\ log' = log /\ pc' = "exit") => exit_code' = 1

LogOpenFailureNotFatal == [][LogFailureStep]_vars


\* the usage text has been written whole
UsagePrinted == Len(stdout) = UsageLines

\* C19: the exit code is 0 after a successful run and after help, 1 after a
\* failed run and after a usage error, and 2 when the usage text could not
\* be printed
ExitCodeContract ==
  pc = "exit" =>
    exit_code = IF Len(argv) = 1 /\ argv[1] \in HelpArgs
                THEN (IF UsagePrinted THEN 0 ELSE 2)
                ELSE IF Len(argv) # 1
                THEN (IF UsagePrinted THEN 1 ELSE 2)
                ELSE (IF rc = 0 THEN 0 ELSE 1)

\* an advance key is handled with a switch pending, and handle_key succeeds
SwitchHandled ==
  AdvanceKeyStep /\ rt.pending_switch /\ (pc' # "restore" \/ rc' >= 0)

\* C20: handling an advance key with a switch pending makes
\* group_order[order_pos] the active group, after a shuffle of group_order
\* and order_pos = 0 when order_pos had reached group_count; order_pos moves
\* on by one, pending_switch is cleared, item_order holds the new group's
\* item range in some order, item_pos is 0, group_end is now + 1000 * the
\* new group's seconds, and item_order[0] is on the screen and in the log
SwitchPostStep ==
  SwitchHandled =>
    LET k == session.group_count
        wrapped == rt.order_pos >= k
        pos == IF wrapped THEN 0 ELSE rt.order_pos
        g == group_order'[pos]
        count == session.groups[g].item_count
        start == session.groups[g].item_start
    IN  /\ IF wrapped
           THEN SameMultiset(group_order, group_order', k)
           ELSE group_order' = group_order
        /\ \A i \in DOMAIN group_order : i >= k => group_order'[i] = group_order[i]
        /\ rt'.group_index = g
        /\ rt'.order_pos = pos + 1
        /\ ~rt'.pending_switch
        /\ {item_order'[i] : i \in 0..(count - 1)} = start..(start + count - 1)
        /\ \A i \in DOMAIN item_order : i >= count => item_order'[i] = item_order[i]
        /\ rt'.item_pos = 0
        /\ rt'.group_end = now + session.groups[g].seconds * 1000
        /\ rt'.item_index = item_order'[0]
        /\ screen' = item_order'[0]
        /\ log_open =>
             /\ Len(log') >= Len(log) + 3
             /\ log'[Len(log')] = Event("prompt", g, item_order'[0])

SwitchPostcondition == [][SwitchPostStep]_vars

\* a switch that shuffled group_order again has been handled in a session of
\* several groups: the log ends with its shuffle, group and prompt events
SwitchPostWitness ==
  /\ pc \in Running
  /\ session.group_count >= 2
  /\ ~rt.pending_switch
  /\ rt.order_pos = 1
  /\ Len(log) >= 4
  /\ log[Len(log) - 3].tag = "key"
  /\ log[Len(log) - 2].tag = "shuffle"
  /\ log[Len(log) - 1].tag = "group"
  /\ log[Len(log)].tag = "prompt"


(***************************************************************************)
(* Keys, expiry and the wait loop                                          *)
(***************************************************************************)
\* handle_key has returned 0 or 1
KeyHandled == pc = "handle_key" /\ (pc' = "wait" \/ (pc' = "restore" /\ rc' >= 0))

\* C21: handling an advance key with no switch pending leaves group_index,
\* order_pos, group_order, pending_switch and group_end as they were; it
\* moves item_pos on by one, or to 0 with item_order rearranged when the end
\* of the group's items is reached, and selects item_order[item_pos]
ItemAdvanceStep ==
  (AdvanceKeyStep /\ ~rt.pending_switch) =>
    LET count == session.groups[rt.group_index].item_count
        wrapped == rt.item_pos + 1 >= count
    IN  /\ rt'.group_index = rt.group_index
        /\ rt'.order_pos = rt.order_pos
        /\ group_order' = group_order
        /\ ~rt'.pending_switch
        /\ rt'.group_end = rt.group_end
        /\ KeyHandled =>
             /\ rt'.item_pos = IF wrapped THEN 0 ELSE rt.item_pos + 1
             /\ rt'.item_index = item_order'[rt'.item_pos]
             /\ IF wrapped
                THEN /\ SameMultiset(item_order, item_order', count)
                     /\ \A i \in DOMAIN item_order :
                          i >= count => item_order'[i] = item_order[i]
                ELSE item_order' = item_order

ItemAdvanceKeepsGroup == [][ItemAdvanceStep]_vars

\* an advance inside a group of several items has wrapped around, after time
\* has passed in the group
ItemAdvanceWitness ==
  /\ pc = "wait"
  /\ ~rt.pending_switch
  /\ session.groups[rt.group_index].item_count >= 2
  /\ rt.item_pos = 0
  /\ now > 0
  /\ rt.group_end > now
  /\ Len(log) >= 3
  /\ log[Len(log) - 2].tag = "key"
  /\ log[Len(log) - 1].tag = "items"
  /\ log[Len(log)].tag = "prompt"


\* space, CR, LF and the alphanumeric bytes
AdvanceBytes == {32, 13, 10} \cup (48..57) \cup (65..90) \cup (97..122)

\* C22: a key is an advance key exactly when it is a space, CR, LF or an
\* alphanumeric byte; handling a key that is neither the quit key nor an
\* advance key leaves the runtime state and both order arrays as they were
\* and the screen as it was, and the wait loop goes on with its next wait of
\* the same prompt
IgnoredKeyStep ==
  pc = "handle_key" =>
    /\ \A k \in 0..255 : is_advance_key(k) <=> k \in AdvanceBytes
    /\ (loop.key # 3 /\ loop.key \notin AdvanceBytes) =>
         /\ rt' = rt
         /\ group_order' = group_order
         /\ item_order' = item_order
         /\ screen' = screen
         /\ KeyHandled =>
              /\ pc' = "wait"
              /\ loop'.step = loop.step
              /\ loop'.wait = loop.wait + 1
    /\ (loop.key \in AdvanceBytes /\ KeyHandled) =>
         \/ pc' = "wait" /\ loop'.step = loop.step + 1 /\ loop'.wait = 0
         \/ pc' = "restore"

NonAdvanceKeyIgnored == [][IgnoredKeyStep]_vars

\* the escape key has been handled and the wait loop has gone on
IgnoredKeyWitness ==
  /\ pc = "wait"
  /\ loop.wait >= 1
  /\ Len(log) >= 1
  /\ log[Len(log)] = Event("key", 27, -1)


\* C23: the quit key ends the loop with success whenever it is handled,
\* with or without a switch pending, and leaves the active group, the item,
\* the timer, the order arrays and the screen as they were; only a failed
\* write of its log line makes the result a failure
QuitKeyStep ==
  (pc = "handle_key" /\ loop.key = 3) =>
    /\ pc' = "restore"
    /\ rc' = IF log_open /\ log' = log THEN -1 ELSE 0
    /\ rt' = rt
    /\ group_order' = group_order
    /\ item_order' = item_order
    /\ screen' = screen
    /\ log_open => Len(log') <= Len(log) + 1

QuitKeyEndsLoop == [][QuitKeyStep]_vars

\* the quit key has ended the loop with success while a switch was pending
QuitKeyWitness ==
  /\ pc = "restore"
  /\ rc = 0
  /\ loop.key = 3
  /\ rt.pending_switch


\* an expiry check: update_expiry at the head of an iteration of the wait loop
ExpiryCheck == pc = "wait" /\ loop.wait < MAX_WAIT_LOOPS

\* between two "expired" events of the log there is a "group" event
OneExpiredPerActivation ==
  \A i, j \in LogTags({"expired"}) :
    i < j => \E l \in LogTags({"group"}) : i < l /\ l < j

\* C24: pending_switch becomes true only in an expiry check that sees
\* now >= group_end, and that check logs one "expired" event of the active
\* group and changes nothing else of the runtime; an expiry check with
\* pending_switch set reads no clock (it cannot fail) and logs nothing, so
\* the log has one "expired" event per expired group activation
PendingSetStep ==
  /\ (~rt.pending_switch /\ rt'.pending_switch) =>
       /\ ExpiryCheck
       /\ now >= rt.group_end
       /\ rt' = [rt EXCEPT !.pending_switch = TRUE]
       /\ Len(log') <= Len(log) + 1
       /\ (log_open /\ pc' # "restore") =>
            log' = Append(log, Event("expired", rt.group_index, -1))
  /\ (ExpiryCheck /\ rt.pending_switch) =>
       /\ pc' = "read_key"
       /\ rt' = rt
       /\ log' = log
  /\ OneExpiredPerActivation'

PendingSetOnlyByExpiry == [][PendingSetStep]_vars

\* an expiry check has run with the switch pending: the expiry was logged, a
\* key that does not advance was handled, and the loop waits for a key again
PendingSetWitness ==
  /\ pc = "read_key"
  /\ rt.pending_switch
  /\ Len(log) >= 2
  /\ log[Len(log) - 1].tag = "expired"
  /\ log[Len(log)] = Event("key", 27, -1)


\* C25: the key wait is issued with timeout -1 exactly when pending_switch
\* is set; otherwise with group_end - now, which is at least 1 and at most
\* 1000 * the active group's seconds, so at most 86400000: the timeout is
\* never 0 and read_key's check of remaining_ms never fails
KeyTimeoutInRange ==
  pc = "read_key" =>
    LET timeout == key_timeout(rt.pending_switch, loop.remaining_ms)
        seconds == session.groups[rt.group_index].seconds
    IN  /\ (timeout = -1) <=> rt.pending_switch
        /\ ~rt.pending_switch =>
             /\ timeout = rt.group_end - now
             /\ timeout >= 1
             /\ timeout <= seconds * 1000
        /\ timeout # 0
        /\ timeout <= 86400000
        /\ loop.remaining_ms <= MAX_GROUP_MILLISECONDS

\* a timed wait is issued after part of the group's time has passed
KeyTimeoutWitness ==
  /\ pc = "read_key"
  /\ ~rt.pending_switch
  /\ loop.wait >= 1
  /\ loop.remaining_ms > 0
  /\ loop.remaining_ms < session.groups[rt.group_index].seconds * 1000


\* the runner is in its wait loop and the active group's switch is not pending
WaitingUnexpired == pc \in {"wait", "read_key"} /\ ~rt.pending_switch

\* the wait loop has ended because a clock read or select() failed
WaitFailed == pc = "restore" /\ rc = -1 /\ loop.wait < MAX_WAIT_LOOPS

\* the wait loop has ended because MAX_WAIT_LOOPS waits passed
WaitCapReached == pc = "restore" /\ rc = -1 /\ loop.wait >= MAX_WAIT_LOOPS

WaitCapStep ==
  (pc = "wait" /\ loop.wait >= MAX_WAIT_LOOPS /\ pc' # pc) =>
    /\ pc' = "restore"
    /\ rc' = -1
    /\ log_open => log' = Append(log, Event("wait loop exceeded", -1, -1))

WaitCapLogged == [][WaitCapStep]_vars

\* C28: a successful initialisation writes a "shuffle" event of the groups
\* to the open log, after group_order was filled and shuffled and before the
\* first prompt event
InitShuffleStep ==
  (pc = "init_runtime" /\ pc' = "enter_raw" /\ log_open) =>
    \E i \in (Len(log) + 1)..Len(log') :
      /\ log'[i].tag = "shuffle"
      /\ \A l \in (Len(log) + 1)..i : log'[l].tag # "prompt"

InitShuffleLogged == [][InitShuffleStep]_vars


\* C29: after a successful initialisation order_pos = 1, group_index =
\* group_order[0], item_pos = 0, item_index = item_order[0], pending_switch is
\* false, group_end = now + 1000 * the first group's seconds, and one prompt
\* has been rendered and logged, with no shuffle event (select_next_group did
\* not shuffle again); the timer is armed only after that prompt
InitRuntimeStep ==
  (pc = "init_runtime" /\ pc' # pc) =>
    LET g == rt'.group_index
        prompted == /\ screen' = rt'.item_index
                    /\ item_cycle' = <<rt'.item_index>>
                    /\ log_open => log' = Append(log, Event("prompt", g, rt'.item_index))
    IN  /\ rt'.group_end # 0 => prompted
        /\ pc' = "enter_raw" =>
             /\ rt'.order_pos = 1
             /\ g = group_order'[0]
             /\ rt'.item_pos = 0
             /\ rt'.item_index = item_order'[0]
             /\ ~rt'.pending_switch
             /\ rt'.group_end = now + session.groups[g].seconds * 1000
             /\ prompted
             /\ group_cycle' = <<g>>

InitRuntimePostcondition == [][InitRuntimeStep]_vars

\* an initialisation of a session of several groups has succeeded with a
\* group other than the first of the file and the log open
InitRuntimeWitness ==
  /\ pc = "enter_raw"
  /\ session.group_count >= 2
  /\ rt.group_index # 0
  /\ rt.order_pos = 1
  /\ log_open
  /\ Len(log) = 2
  /\ log[2].tag = "prompt"


\* the runner has been initialised and has not failed or quit
RunnerActive == pc \in {"enter_raw", "hide_cursor", "wait", "read_key", "handle_key"}

\* C30: in every runner state after initialisation group_order[0..group_count)
\* holds each group index of the session once and item_order[0..item_count)
\* holds each item index of the active group's range once; this stays so
\* across every group switch, a switch into the same group included
OrderArraysPermute ==
  RunnerActive =>
    LET k == session.group_count
        g == rt.group_index
        count == session.groups[g].item_count
        start == session.groups[g].item_start
    IN  /\ k >= 1
        /\ g \in 0..(k - 1)
        /\ {group_order[i] : i \in 0..(k - 1)} = 0..(k - 1)
        /\ count >= 1
        /\ {item_order[i] : i \in 0..(count - 1)} = start..(start + count - 1)

\* the only group of a session has expired and been entered again, and its
\* items are in an order other than that of the file
OrderArraysWitness ==
  /\ pc = "wait"
  /\ session.group_count = 1
  /\ session.groups[0].item_count >= 2
  /\ item_order[0] # session.groups[0].item_start
  /\ ~rt.pending_switch
  /\ \E i \in DOMAIN log : log[i].tag = "expired"


(***************************************************************************)
(* The key log, the parser's item lines, caps and line numbers             *)
(***************************************************************************)
\* the events a step has added to the log
Logged == SubSeq(log', Len(log) + 1, Len(log'))

\* C31: handling a key read from the terminal logs that key once, whatever
\* the key is (quit and ignored keys too), and its event comes before every
\* 'group', 'shuffle' and 'prompt' event of the same step; when the key's
\* line cannot be written the key is not acted upon
KeyLoggedStep ==
  (pc = "handle_key" /\ log_open) =>
    /\ IsPrefix(log, log')
    /\ \/ /\ Logged # <<>>
          /\ Logged[1] = Event("key", loop.key, -1)
          /\ \A i \in 2..Len(Logged) :
               Logged[i].tag \in {"group", "shuffle", "items", "prompt"}
       \/ /\ Logged = <<>>
          /\ pc' = "restore"
          /\ rc' < 0
          /\ rt' = rt
          /\ screen' = screen

KeyLoggedFirst == [][KeyLoggedStep]_vars

\* an advance key has switched the group: its event is followed in the log
\* by the events of the switch and of the prompt
KeyLoggedWitness ==
  /\ pc = "wait"
  /\ Len(log) >= 3
  /\ \E i \in 1..(Len(log) - 2) :
       /\ log[i].tag = "key"
       /\ log[i].a = 32
       /\ log[i + 1].tag \in {"group", "shuffle"}
       /\ log[Len(log)].tag = "prompt"


\* the number of bytes of a text before its n-th line
RECURSIVE LineOffset(_, _)
LineOffset(raw, n) ==
  IF n = 1 THEN 0 ELSE LineOffset(raw, n - 1) + Len(raw[n - 1]) + 1

\* the caps leave room for one more item in the open group
RoomForItem ==
  /\ session.item_count < MAX_ITEMS_TOTAL
  /\ session.groups[state.current_group].item_count < MAX_ITEMS_PER_GROUP

\* C32: a line that is not blank, not a comment and does not begin with '['
\* fails with "item before any group header" and its line number before any
\* header; after a header (and below the caps) it adds one Item with the
\* line's start as offset and the line's length as length to the group
\* opened last, adds one to that group's item_count and to the session's,
\* and changes no other group and no earlier item
ItemLineStep ==
  (pc = "parse" /\ TextPrompt(CurrentLine)) =>
    IF ~state.has_group
    THEN /\ pc' = "parse_failed"
         /\ err_buf' = [line |-> state.line_no, msg |-> "item before any group header"]
         /\ session'.group_count = 0
         /\ session'.item_count = 0
    ELSE RoomForItem =>
         LET g == session.group_count - 1
             k == session.item_count
         IN  /\ pc' \in {"parse", "parse_end"}
             /\ state.current_group = g
             /\ session'.item_count = k + 1
             /\ session'.items[k] =
                  [offset |-> LineOffset(SplitLines(file, <<>>), state.line_no),
                   length |-> Len(CurrentLine)]
             /\ \A j \in 0..(k - 1) : session'.items[j] = session.items[j]
             /\ session'.group_count = session.group_count
             /\ session'.groups[g] =
                  [session.groups[g] EXCEPT !.item_count = @ + 1]
             /\ \A h \in 0..(g - 1) : session'.groups[h] = session.groups[h]

ItemLineAppends == [][ItemLineStep]_vars

\* an item line with leading white space and a CR LF ending has been added
\* to the second group of a file
ItemLineWitness ==
  /\ pc \in {"parse", "parse_end"}
  /\ session.group_count = 2
  /\ session.groups[0].item_count >= 1
  /\ session.groups[1].item_count = 1
  /\ session.items[session.item_count - 1].length = 2
  /\ session.items[session.item_count - 1].offset > 0


\* the counts of the session are within the capacities
CountsWithinCaps ==
  /\ session.group_count <= MAX_GROUPS
  /\ session.item_count <= MAX_ITEMS_TOTAL
  /\ \A g \in 0..(MAX_GROUPS - 1) : session.groups[g].item_count <= MAX_ITEMS_PER_GROUP

\* a step has left the counts of the session as they were
CountsUnchanged ==
  /\ session'.group_count = session.group_count
  /\ session'.item_count = session.item_count
  /\ \A g \in 0..(MAX_GROUPS - 1) :
       session'.groups[g].item_count = session.groups[g].item_count

\* parsing fails at the line at hand with a message and that line's number
FailsWith(msg) ==
  /\ pc' = "parse_failed"
  /\ err_buf' = [line |-> state.line_no, msg |-> msg]
  /\ CountsUnchanged

\* a valid header that follows a group with items, and a prompt in a group
HeaderAtHand ==
  /\ pc = "parse"
  /\ TextValidHeader(CurrentLine)
  /\ state.has_group => session.groups[state.current_group].item_count > 0
PromptAtHand == pc = "parse" /\ TextPrompt(CurrentLine) /\ state.has_group

\* a header or a prompt at a capacity fails and changes no count; one that
\* reaches a capacity is taken
CapStep ==
  /\ HeaderAtHand =>
       IF session.group_count >= MAX_GROUPS THEN FailsWith("too many groups")
       ELSE pc' # "parse_failed" /\ session'.group_count = session.group_count + 1
  /\ PromptAtHand =>
       IF session.item_count >= MAX_ITEMS_TOTAL THEN FailsWith("too many items")
       ELSE IF session.groups[state.current_group].item_count >= MAX_ITEMS_PER_GROUP
       THEN FailsWith("too many items in group")
       ELSE /\ pc' # "parse_failed"
            /\ session'.item_count = session.item_count + 1
            /\ session'.groups[state.current_group].item_count
                 = session.groups[state.current_group].item_count + 1

\* C33: in every parser state group_count <= MAX_GROUPS, item_count <=
\* MAX_ITEMS_TOTAL and every group's item_count <= MAX_ITEMS_PER_GROUP; a
\* header or item line beyond a capacity fails with its line number and "too
\* many groups", "too many items" or "too many items in group" and leaves
\* the counts unchanged, and a line that reaches a capacity exactly is taken
CapsRespected == []CountsWithinCaps /\ [][CapStep]_vars

\* a file of MAX_GROUPS full groups has failed at one more header
CapsWitness ==
  /\ pc = "parse_failed"
  /\ err_buf = [line |-> 7, msg |-> "too many groups"]
  /\ session.group_count = MAX_GROUPS
  /\ session.item_count = MAX_GROUPS


\* C34: a parse error with a line number names a line of the file, counted
\* from 1 with blank and comment lines included, and that line is the one
\* at which parsing stopped; the number of "last group has no items" is
\* that of a line of the file too
ErrorLineExists ==
  (pc = "parse_failed" /\ err_buf.line # 0) =>
    /\ err_buf.line \in 1..Len(TextLines(file))
    /\ err_buf.msg # "last group has no items" =>
         /\ err_buf.line = state.line_no
         /\ ~TextIgnored(TextLines(file)[err_buf.line])


\* C35: once the file has been read, buffer[0, buffer_len) holds the bytes
\* of the file, whatever parsing and the run have done since
BufferImmutable ==
  \A i \in 0..(session.buffer_len - 1) : session.buffer[i] = file[i + 1]


\* a session runner_run must refuse, or a terminal that is not in raw mode
RunnerRefuses ==
  \/ term.active # 1
  \/ session.group_count = 0
  \/ \E g \in 0..(session.group_count - 1) :
       session.groups[g].item_count = 0 \/ session.groups[g].item_count > MAX_ITEMS_PER_GROUP

\* C36: runner_run called with a session of no groups, or with a group of no
\* items or of more than MAX_ITEMS_PER_GROUP items, or with a terminal that
\* is not in raw mode, returns a failure at once: no order array is filled
\* or shuffled, nothing is rendered or logged, no timer is armed and no
\* second attempt is made
RunnerRefusesStep ==
  (pc = "runner_run" /\ RunnerRefuses) =>
    /\ pc' = "returned"
    /\ rc' = -1
    /\ group_order' = group_order
    /\ item_order' = item_order
    /\ screen' = screen
    /\ log' = log
    /\ rt' = rt
    /\ session' = session

RunnerFailsEarly == [][RunnerRefusesStep]_vars

\* runner_run has refused a session whose second group has no items, with
\* the terminal in raw mode and the log open
RunnerRefusesWitness ==
  /\ pc = "returned"
  /\ rc = -1
  /\ term.active = 1
  /\ log_open
  /\ session.group_count = 2
  /\ session.groups[0].item_count = 1
  /\ session.groups[1].item_count = 0
  /\ log = <<>>


\* a step has left the runner's data, the screen and the log as they were
RunnerDataKept ==
  /\ rt' = rt
  /\ group_order' = group_order
  /\ item_order' = item_order
  /\ screen' = screen
  /\ log' = log

\* C37: an interrupted select() or read() of the key read counts as "no
\* key": the wait loop goes on to its next iteration, where it looks at the
\* deadline again, and nothing else changes; every other failure of the key
\* read, the end of input on a ready descriptor included, ends the run with
\* a failure at once, and the key read is not tried again
KeyReadStep ==
  /\ pc = "read_key" =>
       LET ev == loop'.read IN
       /\ ev \in {"select_eintr", "read_eintr"} =>
            /\ pc' = "wait"
            /\ loop'.wait = loop.wait + 1
            /\ loop'.step = loop.step
            /\ rc' = rc
            /\ RunnerDataKept
       /\ ev \in {"select_error", "eof", "read_error"} =>
            /\ pc' = "restore"
            /\ rc' = -1
            /\ loop'.wait = loop.wait
            /\ RunnerDataKept
       /\ ev = "byte" => pc' = "handle_key"
  /\ (pc = "wait" /\ loop.read \in {"select_eintr", "read_eintr"}) =>
       pc' \in {"read_key", "restore"}
  /\ pc = "restore" => pc' \notin {"wait", "read_key", "handle_key"}

InterruptedReadGoesOn == [][KeyReadStep]_vars

\* a read() interrupted after a wait of a tick has been taken as "no key"
\* and the wait loop is in its next iteration
InterruptedReadWitness ==
  /\ pc = "wait"
  /\ loop.read = "read_eintr"
  /\ loop.wait = 1
  /\ now = TickMs
  /\ ~rt.pending_switch


\* C38: in every runner state after initialisation 1 <= order_pos <=
\* group_count, group_index = group_order[order_pos - 1], item_pos is below
\* the active group's item_count, item_index = item_order[item_pos] lies in
\* the active group's item range, and the prompt on the screen and the last
\* prompt of the log are that item of that group
PositionsConsistent ==
  RunnerActive =>
    LET g == rt.group_index
        count == session.groups[g].item_count
        start == session.groups[g].item_start
        prompts == LogTags({"prompt"})
    IN  /\ 1 <= rt.order_pos
        /\ rt.order_pos <= session.group_count
        /\ g = group_order[rt.order_pos - 1]
        /\ rt.item_pos < count
        /\ rt.item_index = item_order[rt.item_pos]
        /\ rt.item_index \in start..(start + count - 1)
        /\ screen = rt.item_index
        /\ (log_open /\ prompts # {}) =>
             \E i \in prompts :
               /\ \A j \in prompts : j <= i
               /\ log[i] = Event("prompt", g, rt.item_index)

\* the second item of the second group of the order is on the screen
PositionsWitness ==
  /\ pc = "wait"
  /\ rt.order_pos = 2
  /\ rt.item_pos = 1
  /\ rt.item_index # session.groups[rt.group_index].item_start
  /\ log_open
  /\ log[Len(log)] = Event("prompt", rt.group_index, rt.item_index)


\* C39: while pending_switch is true every step other than the handling of
\* an advance key leaves it true and leaves group_index, item_index,
\* item_pos, order_pos, group_end and the two order arrays as they were; no
\* prompt is rendered or logged, and the screen changes only when the run
\* has ended and the terminal is restored
PendingStep ==
  (rt.pending_switch /\ ~AdvanceKeyStep) =>
    /\ rt' = rt
    /\ group_order' = group_order
    /\ item_order' = item_order
    /\ item_cycle' = item_cycle
    /\ LogTags({"prompt"})' = LogTags({"prompt"})
    /\ screen' = screen \/ (pc = "restore" /\ screen' = -1)

PendingSwitchHeld == [][PendingStep]_vars

\* a switch is still pending after a key that does not advance has been
\* handled
PendingHeldWitness ==
  /\ pc = "wait"
  /\ rt.pending_switch
  /\ loop.wait >= 1
  /\ Len(log) >= 2
  /\ log[Len(log)] = Event("key", 27, -1)
  /\ log[Len(log) - 1].tag = "expired"

====
